---- MODULE Spec2Model ----
(***************************************************************************)
(* Reward / points / streak engine of the student-management backend       *)
(* (src/backend): points calculation, the points ledger, the streak        *)
(* tracker and the request handlers that drive them.                       *)
(*                                                                         *)
(* Time is counted in IST calendar days; day 0 is a Monday and the first   *)
(* day of a month.  An Optional value is a sequence of length <= 1:        *)
(* None == <<>>, a date d is <<d>>.                                        *)
(***************************************************************************)
EXTENDS Integers, Sequences, FiniteSets, TLC

VARIABLES
    today,              \* get_ist_now().date(), as a day number
    user,               \* the users row of the student under observation
    profile_course,     \* StudentProfile.course of that student (Optional)
    practice_sessions,  \* practice_sessions rows of the student, in insert order
    points_logs,        \* points_logs rows of the student, in insert order
    rewards,            \* rewards rows of the student, in insert order
    paper_attempts,     \* paper_attempts rows of the student for one paper, in insert order
    last,               \* the last operation: its name, inputs, pre-state and outcome
    calc,               \* inputs and results of the points calculation
    in_flight           \* per worker: the request or background task it is running

vars == <<today, user, profile_course, practice_sessions, points_logs, rewards,
          paper_attempts, last, calc, in_flight>>

(***************************************************************************)
(* Bounds of the model.                                                    *)
(***************************************************************************)
MaxDay == 3            \* days simulated
MaxSessions == 3       \* practice_sessions rows
MaxCount == 13         \* largest correct / wrong count fed to the points calculation

(***************************************************************************)
(* Program constants.                                                      *)
(***************************************************************************)
StreakThreshold == 15
GraceSkipCost == 2000
DailyLoginBonus == 10

None == <<>>
Some(x) == <<x>>

Max(a, b) == IF a >= b THEN a ELSE b

(***************************************************************************)
(* Points calculation (pure functions).                                    *)
(***************************************************************************)

\* gamification.calculate_points with attempted_questions ignored: every
\* question of the session is paid as if attempted.
calculate_points_total_only(correct_answers, total_questions, attempted_questions) ==
    Max(0, total_questions * 1 + correct_answers * 5)

\* gamification.calculate_points without the floor at 0
calculate_points_unfloored(correct_answers, total_questions, attempted_questions) ==
    LET attempted == IF attempted_questions # None THEN attempted_questions[1]
                     ELSE total_questions
    IN  attempted * 1 + correct_answers * 5

\* gamification.calculate_points: attempted_questions is Optional; None falls
\* back to total_questions.
calculate_points(correct_answers, total_questions, attempted_questions) ==
    LET attempted == IF attempted_questions # None THEN attempted_questions[1]
                     ELSE total_questions
        attempted_points == attempted * 1
        correct_points == correct_answers * 5
        total_points == attempted_points + correct_points
    IN  Max(0, total_points)

\* reward_system.calculate_points_for_attempt
calculate_points_for_attempt(total_questions, correct_answers, attempted_questions) ==
    LET attempted_points == attempted_questions * 1
        correct_points == correct_answers * 5
        total_points == attempted_points + correct_points
    IN  Max(0, total_points)

(***************************************************************************)
(* Rows.                                                                   *)
(***************************************************************************)

\* models.User column defaults: the row of a newly created user.
NewUser ==
    [ total_points |-> 0,
      current_streak |-> 0,
      longest_streak |-> 0,
      last_practice_date |-> None,
      total_questions_attempted |-> 0,
      last_grace_skip_date |-> None,
      grace_skip_week_start |-> None,
      last_daily_login_bonus_date |-> None ]

\* models.PracticeSession: the columns the reward engine reads; completed_at
\* is kept as its calendar day.
PracticeSession(correct, wrong, total, points, day) ==
    [ correct_answers |-> correct,
      wrong_answers |-> wrong,
      total_questions |-> total,
      points_earned |-> points,
      completed_at |-> day ]

\* models.PointsLog
PointsLog(points, source_type, source_id) ==
    [ points |-> points, source_type |-> source_type, source_id |-> source_id ]

\* models.Reward as db.add(Reward(...)) leaves it: a pending row of the
\* database session.  SessionLocal is made with autoflush=False, so a pending
\* row is not seen by a query until the session is flushed or committed.
\* month_earned is the Optional first day of the month.
Reward(badge_type, month_earned, is_lifetime) ==
    [ badge_type |-> badge_type, month_earned |-> month_earned,
      is_lifetime |-> is_lifetime, flushed |-> FALSE ]

\* db.commit() / db.flush(): the pending Reward rows are written
commit_rewards(rws) ==
    [ i \in 1..Len(rws) |-> [rws[i] EXCEPT !.flushed = TRUE] ]

\* db.rollback() / db.close(): the pending Reward rows are dropped
rollback_rewards(rws) ==
    SelectSeq(rws, LAMBDA r : r.flushed)

\* db.query(Reward).filter(Reward.badge_type == badge_type).first() is not None
existing_badge(rws, badge_type) ==
    \E i \in 1..Len(rws) : rws[i].flushed /\ rws[i].badge_type = badge_type

\* the month filter of the monthly existence queries dropped
existing_monthly_badge_any_month(rws, badge_type, month_earned) ==
    existing_badge(rws, badge_type)

\* ... .filter(Reward.badge_type == badge_type, Reward.month_earned == month_str)
existing_monthly_badge(rws, badge_type, month_earned) ==
    \E i \in 1..Len(rws) :
        /\ rws[i].flushed
        /\ rws[i].badge_type = badge_type
        /\ rws[i].month_earned = month_earned

(***************************************************************************)
(* Calendar: day 0 is Monday 1 February 2021.                              *)
(***************************************************************************)
weekday(d) == d % 7
MonthStart(d) == IF d < 28 THEN 0 ELSE 28
DaysInMonth(d) == IF d < 28 THEN 28 ELSE 31

(***************************************************************************)
(* Points ledger.                                                          *)
(***************************************************************************)

\* log_points with the PointsLog row built and added
log_points_written(logs, points, source_type, source_id) ==
    [ raised |-> FALSE,
      points_logs |-> Append(logs, PointsLog(points, source_type, source_id)) ]

\* points_logger.log_points: the PointsLog constructor call evaluates the
\* keyword argument `extradata or {}`; no such name exists, so every call
\* raises NameError before a row is built or added.
log_points(logs, points, source_type, source_id) ==
    [ raised |-> TRUE, points_logs |-> logs ]

RECURSIVE SumPoints(_, _)
SumPoints(logs, i) ==
    IF i = 0 THEN 0 ELSE SumPoints(logs, i - 1) + logs[i].points

\* points_logger.get_points_summary
get_points_summary(logs, u) ==
    LET total_from_logs == SumPoints(logs, Len(logs))
        total_from_user == IF u # None THEN u.total_points ELSE 0
    IN  [ total_points_from_logs |-> total_from_logs,
          total_points_from_user |-> total_from_user,
          match |-> (total_from_logs = total_from_user) ]

(***************************************************************************)
(* Streak tracker: gamification.update_streak.                             *)
(***************************************************************************)

\* sum(s.correct_answers + s.wrong_answers) over the sessions completed on day d
RECURSIVE attempted_on(_, _, _)
attempted_on(sessions, d, i) ==
    IF i = 0 THEN 0
    ELSE attempted_on(sessions, d, i - 1)
         + (IF sessions[i].completed_at = d
            THEN sessions[i].correct_answers + sessions[i].wrong_answers
            ELSE 0)

\* sum(s.total_questions) over the sessions completed on day d
RECURSIVE total_questions_on(_, _, _)
total_questions_on(sessions, d, i) ==
    IF i = 0 THEN 0
    ELSE total_questions_on(sessions, d, i - 1)
         + (IF sessions[i].completed_at = d THEN sessions[i].total_questions ELSE 0)

\* update_streak: the number it compares with the threshold. The query takes
\* every session of today completed before now; the argument is added to it.
total_questions_today(sessions, day, questions_practiced_today) ==
    attempted_on(sessions, day, Len(sessions)) + questions_practiced_today

\* the threshold test with an off-by-one (> instead of >=)
met_daily_requirement_strict(sessions, day, questions_practiced_today) ==
    total_questions_today(sessions, day, questions_practiced_today) > StreakThreshold

met_daily_requirement(sessions, day, questions_practiced_today) ==
    total_questions_today(sessions, day, questions_practiced_today) >= StreakThreshold

\* days_diff == 0
same_day_branch(u, met) ==
    IF ~met THEN [u EXCEPT !.current_streak = 0] ELSE u

\* the consecutive-day branch without the update of longest_streak
consecutive_day_branch_no_longest(u, sessions, last_date, met) ==
    LET yesterday_questions == attempted_on(sessions, last_date, Len(sessions))
    IN  IF yesterday_questions >= StreakThreshold
        THEN [u EXCEPT !.current_streak = u.current_streak + 1]
        ELSE [u EXCEPT !.current_streak = IF met THEN 1 ELSE 0]

\* days_diff == 1
consecutive_day_branch(u, sessions, last_date, met) ==
    LET yesterday_questions == attempted_on(sessions, last_date, Len(sessions))
        yesterday_met_requirement == yesterday_questions >= StreakThreshold
    IN  IF yesterday_met_requirement
        THEN LET inc == [u EXCEPT !.current_streak = u.current_streak + 1]
             IN  IF inc.current_streak > inc.longest_streak
                 THEN [inc EXCEPT !.longest_streak = inc.current_streak]
                 ELSE inc
        ELSE [u EXCEPT !.current_streak = IF met THEN 1 ELSE 0]

\* the gap branch continuing the old streak instead of restarting it
gap_branch_continue(u, met) ==
    [u EXCEPT !.current_streak = IF met THEN u.current_streak + 1 ELSE 0]

\* days_diff > 1
gap_branch(u, met) ==
    [u EXCEPT !.current_streak = IF met THEN 1 ELSE 0]

\* no last_practice_date
first_practice_branch(u, met) ==
    [u EXCEPT !.current_streak = IF met THEN 1 ELSE 0]

\* gamification.update_streak
update_streak(u, sessions, day, questions_practiced_today) ==
    LET met == met_daily_requirement(sessions, day, questions_practiced_today)
        branched ==
            IF u.last_practice_date # None
            THEN LET last_date == u.last_practice_date[1]
                     days_diff == day - last_date
                 IN  IF days_diff = 0 THEN same_day_branch(u, met)
                     ELSE IF days_diff = 1
                          THEN consecutive_day_branch(u, sessions, last_date, met)
                          ELSE gap_branch(u, met)
            ELSE first_practice_branch(u, met)
        dated == [branched EXCEPT !.last_practice_date = Some(day)]
    IN  \* final validation (safety check)
        IF dated.current_streak > 0 /\ ~met
        THEN [dated EXCEPT !.current_streak = 0]
        ELSE dated

(***************************************************************************)
(* Streak tracker with grace skip: reward_system.                          *)
(***************************************************************************)

\* the eligibility test with a rolling 7-day window after the last skip in
\* place of the stored week
can_use_grace_skip_rolling(u, day) ==
    IF u.total_points < GraceSkipCost THEN FALSE
    ELSE IF u.last_grace_skip_date # None /\ day < u.last_grace_skip_date[1] + 7
         THEN FALSE
         ELSE TRUE

\* the eligibility test without the weekly limit
can_use_grace_skip_points_only(u, day) ==
    u.total_points >= GraceSkipCost

\* reward_system.can_use_grace_skip (the can_use component)
can_use_grace_skip(u, day) ==
    IF u.total_points < GraceSkipCost THEN FALSE
    ELSE IF u.grace_skip_week_start # None
            /\ day < u.grace_skip_week_start[1] + 7
            /\ u.last_grace_skip_date # None
            /\ u.last_grace_skip_date[1] >= u.grace_skip_week_start[1]
         THEN FALSE
         ELSE TRUE

\* reward_system.award_monthly_streak_badge
award_monthly_streak_badge(rws, day) ==
    LET month_str == Some(MonthStart(day))
        existing == existing_monthly_badge(rws, "monthly_streak", month_str)
    IN  IF existing THEN rws
        ELSE Append(rws, Reward("monthly_streak", month_str, FALSE))

\* number of sessions completed in the calendar month of `day`
sessions_this_month(sessions, day) ==
    Cardinality({ i \in 1..Len(sessions) :
                    /\ sessions[i].completed_at >= MonthStart(day)
                    /\ sessions[i].completed_at < MonthStart(day) + DaysInMonth(day) })

\* reward_system.check_streak_bonuses: the bonus and the rewards table after it
check_streak_bonuses(u, sessions, rws, day) ==
    LET streak == u.current_streak
        milestone == IF streak = 7 THEN 50
                     ELSE IF streak = 14 THEN 100
                     ELSE IF streak = 21 THEN 200
                     ELSE 0
        monthly == streak >= 28
                   /\ sessions_this_month(sessions, day) >= DaysInMonth(day)
    IN  [ bonus |-> milestone + (IF monthly THEN 500 ELSE 0),
          rewards |-> IF monthly THEN award_monthly_streak_badge(rws, day) ELSE rws ]

\* reward_system.update_streak_with_grace_skip: the user object, the ledger and
\* the rewards table after the call, and whether the call raised.  A raise
\* leaves the assignments made before it on the user object.
update_streak_with_grace_skip(u, sessions, logs, rws, day, questions_attempted_today) ==
    LET met_requirement == questions_attempted_today >= StreakThreshold
        \* the transition table: <<user, result["streak_updated"]>>
        step ==
            IF u.last_practice_date # None
            THEN LET last_date == u.last_practice_date[1]
                     days_diff == day - last_date
                 IN  IF days_diff = 0
                     THEN IF ~met_requirement
                          THEN <<[u EXCEPT !.current_streak = 0], FALSE>>
                          ELSE <<u, FALSE>>
                     ELSE IF days_diff = 1
                     THEN IF met_requirement
                          THEN LET yesterday_questions ==
                                       total_questions_on(sessions, last_date, Len(sessions))
                                   yesterday_met == yesterday_questions >= StreakThreshold
                               IN  IF yesterday_met
                                   THEN <<[u EXCEPT !.current_streak = u.current_streak + 1], TRUE>>
                                   ELSE IF can_use_grace_skip(u, day)
                                        THEN <<u, FALSE>>
                                        ELSE <<[u EXCEPT !.current_streak = 1], TRUE>>
                          ELSE <<u, FALSE>>
                     ELSE IF met_requirement
                          THEN <<[u EXCEPT !.current_streak = 1], TRUE>>
                          ELSE <<[u EXCEPT !.current_streak = 0], FALSE>>
            ELSE IF met_requirement
                 THEN <<[u EXCEPT !.current_streak = 1], TRUE>>
                 ELSE <<[u EXCEPT !.current_streak = 0], FALSE>>
        u1 == step[1]
        streak_updated == step[2]
        u2 == IF u1.current_streak > u1.longest_streak
              THEN [u1 EXCEPT !.longest_streak = u1.current_streak]
              ELSE u1
        checked == IF streak_updated
                   THEN check_streak_bonuses(u2, sessions, rws, day)
                   ELSE [bonus |-> 0, rewards |-> rws]
        u3 == [u2 EXCEPT !.total_points = u2.total_points + checked.bonus]
        logged == IF checked.bonus > 0
                  THEN log_points(logs, checked.bonus, "streak_bonus", None)
                  ELSE [raised |-> FALSE, points_logs |-> logs]
    IN  IF logged.raised
        THEN [ user |-> u3, points_logs |-> logs, rewards |-> checked.rewards,
               raised |-> TRUE ]
        ELSE [ user |-> [u3 EXCEPT !.last_practice_date = Some(day)],
               points_logs |-> logged.points_logs, rewards |-> checked.rewards,
               raised |-> FALSE ]

(***************************************************************************)
(* Badges.  Each check takes the Reward rows of the session and returns    *)
(* them with the rows it added, and the list of names it returns.          *)
(***************************************************************************)

\* reward_system.check_and_award_lifetime_badges: (threshold, badge_type, badge_name)
LifetimeBadges ==
    << <<500, "bronze_mind", "Bronze Mind">>,
       <<2000, "silver_mind", "Silver Mind">>,
       <<5000, "gold_mind", "Gold Mind">> >>

\* gamification.check_and_award_super_rewards: (threshold, badge_type, badge_name)
SuperRewards ==
    << <<1500, "chocolate_1", "Chocolate">>,
       <<3000, "super_s", "SUPER Badge - S">>,
       <<4500, "chocolate_2", "Chocolate">>,
       <<6000, "super_u", "SUPER Badge - U">>,
       <<7500, "chocolate_3", "Chocolate">>,
       <<9000, "super_p", "SUPER Badge - P">>,
       <<12000, "super_e", "SUPER Badge - E + Mystery Gift">>,
       <<15000, "super_r", "SUPER Badge - R + Party">> >>

\* reward_system.check_and_award_super_rewards: the chocolates, the letters
\* and the special rewards, in the order the function walks them
SuperJourney ==
    << <<1500, "chocolate_1500", "Chocolate">>,
       <<4500, "chocolate_4500", "Chocolate">>,
       <<7500, "chocolate_7500", "Chocolate">>,
       <<10500, "chocolate_10500", "Chocolate">>,
       <<13500, "chocolate_13500", "Chocolate">>,
       <<16500, "chocolate_16500", "Chocolate">>,
       <<19500, "chocolate_19500", "Chocolate">>,
       <<3000, "super_s", "SUPER Badge - S">>,
       <<6000, "super_u", "SUPER Badge - U">>,
       <<9000, "super_p", "SUPER Badge - P">>,
       <<12000, "super_e", "SUPER Badge - E">>,
       <<15000, "super_r", "SUPER Badge - R">>,
       <<18000, "mystery_gift", "Mystery Gift">>,
       <<21000, "party", "Party">> >>

\* the existence query of check_and_award_lifetime_badges
existing_lifetime_badge(rws, badge_type) ==
    \E i \in 1..Len(rws) :
        rws[i].flushed /\ rws[i].badge_type = badge_type /\ rws[i].is_lifetime

\* the loop of check_and_award_lifetime_badges from entry i on
RECURSIVE award_lifetime_from(_, _, _)
award_lifetime_from(acc, total_attempted, i) ==
    IF i > Len(LifetimeBadges) THEN acc
    ELSE LET b == LifetimeBadges[i]
             hit == /\ total_attempted >= b[1]
                    /\ ~existing_lifetime_badge(acc.rewards, b[2])
         IN  award_lifetime_from(
                 IF hit
                 THEN [ rewards |-> Append(acc.rewards, Reward(b[2], None, TRUE)),
                        awarded |-> Append(acc.awarded, b[3]) ]
                 ELSE acc,
                 total_attempted, i + 1)

\* reward_system.check_and_award_lifetime_badges
check_and_award_lifetime_badges(u, rws) ==
    award_lifetime_from([rewards |-> rws, awarded |-> <<>>],
                        u.total_questions_attempted, 1)

\* the loop over a ladder of (threshold, badge_type, badge_name) from entry i
\* on: the badge is added unless a query finds a row of its badge_type
RECURSIVE award_ladder_from(_, _, _, _)
award_ladder_from(acc, ladder, total_points, i) ==
    IF i > Len(ladder) THEN acc
    ELSE LET b == ladder[i]
             hit == total_points >= b[1] /\ ~existing_badge(acc.rewards, b[2])
         IN  award_ladder_from(
                 IF hit
                 THEN [ rewards |-> Append(acc.rewards, Reward(b[2], None, FALSE)),
                        awarded |-> Append(acc.awarded, b[3]) ]
                 ELSE acc,
                 ladder, total_points, i + 1)

\* gamification.check_and_award_super_rewards, the one the deferred phases call
check_and_award_super_rewards(u, rws) ==
    award_ladder_from([rewards |-> rws, awarded |-> <<>>], SuperRewards,
                      u.total_points, 1)

\* reward_system.check_and_award_super_rewards
super_journey_rewards(u, rws) ==
    award_ladder_from([rewards |-> rws, awarded |-> <<>>], SuperJourney,
                      u.total_points, 1)

\* a monthly badge is added unless a row of its type and month is found
award_monthly(acc, badge_type, badge_name, month_str) ==
    IF existing_monthly_badge(acc.rewards, badge_type, month_str)
    THEN acc
    ELSE [ rewards |-> Append(acc.rewards, Reward(badge_type, month_str, FALSE)),
           awarded |-> Append(acc.awarded, badge_name) ]

\* reward_system.check_and_award_accuracy_badges: accuracy is a percentage
check_and_award_accuracy_badges(rws, accuracy, total_questions, month_str) ==
    LET start == [rewards |-> rws, awarded |-> <<>>]
        ace == IF accuracy >= 90 /\ total_questions >= 10
               THEN award_monthly(start, "accuracy_ace", "Accuracy Ace", month_str)
               ELSE start
    IN  IF accuracy = 100 /\ total_questions >= 5
        THEN award_monthly(ace, "perfect_precision", "Perfect Precision", month_str)
        ELSE ace

\* reward_system.check_and_award_improvement_badge: the accuracies are
\* percentages, previous_month_accuracy is Optional
check_and_award_improvement_badge(rws, current_month_accuracy, previous_month_accuracy, month_str) ==
    LET start == [rewards |-> rws, awarded |-> <<>>]
    IN  IF previous_month_accuracy = None \/ previous_month_accuracy = Some(0)
        THEN start
        ELSE IF current_month_accuracy - previous_month_accuracy[1] >= 20
             THEN award_monthly(start, "comeback_kid", "Comeback Kid", month_str)
             ELSE start

\* gamification.check_and_award_badges: the legacy streak badges
check_and_award_badges(u, rws) ==
    LET start == [rewards |-> rws, awarded |-> <<>>]
        week == IF u.current_streak >= 7 /\ ~existing_badge(start.rewards, "streak_7")
                THEN [ rewards |-> Append(start.rewards, Reward("streak_7", None, FALSE)),
                       awarded |-> Append(start.awarded, "7-Day Streak") ]
                ELSE start
    IN  IF u.current_streak >= 30 /\ ~existing_badge(week.rewards, "streak_30")
        THEN [ rewards |-> Append(week.rewards, Reward("streak_30", None, FALSE)),
               awarded |-> Append(week.awarded, "30-Day Streak") ]
        ELSE week

\* reward_system.evaluate_attendance_badges for the student: attendance tells
\* whether the branch had no class session in the month ("none"), or the
\* student was present at all of them ("full") or not ("partial")
evaluate_attendance_badges(rws, attendance, month_str) ==
    IF attendance = "full"
    THEN award_monthly([rewards |-> rws, awarded |-> <<>>], "attendance_champion",
                       "Attendance Champion", month_str).rewards
    ELSE rws

\* reward_system.evaluate_tshirt_star_badges for the student
evaluate_tshirt_star_badges(rws, tshirt, month_str) ==
    IF tshirt = "full"
    THEN award_monthly([rewards |-> rws, awarded |-> <<>>], "gold_tshirt_star",
                       "Gold T-Shirt Star", month_str).rewards
    ELSE rws

\* reward_system.award_leaderboard_badges: (rank, badge_type, badge_name)
LeaderboardBadges ==
    << <<0, "leaderboard_gold", "Leaderboard Champion">>,
       <<1, "leaderboard_silver", "Leaderboard Runner-up">>,
       <<2, "leaderboard_bronze", "Leaderboard Third Place">> >>

\* reward_system.award_leaderboard_badges for the student, who stands at
\* position rank of the students ordered by total_points (0 is the top)
award_leaderboard_badges(rws, rank, month_str) ==
    IF rank + 1 \in 1..Len(LeaderboardBadges)
    THEN award_monthly([rewards |-> rws, awarded |-> <<>>], LeaderboardBadges[rank + 1][2],
                       LeaderboardBadges[rank + 1][3], month_str).rewards
    ELSE rws

\* monthly_badge_evaluation.evaluate_monthly_badges and the admin endpoint
\* evaluate_monthly_badges_admin: the three evaluations, then db.commit()
evaluate_monthly_badges(rws, attendance, tshirt, rank, month_str) ==
    commit_rewards(
        award_leaderboard_badges(
            evaluate_tshirt_star_badges(
                evaluate_attendance_badges(rws, attendance, month_str),
                tshirt, month_str),
            rank, month_str))

(***************************************************************************)
(* Request handlers.  Each takes the rows it reads and returns the rows as *)
(* committed when the request ends, with the HTTP status.                  *)
(***************************************************************************)
MaxAttemptsPerPaper == 2

\* main.INCOMPLETE_ATTEMPT_TIMEOUT_SECONDS
INCOMPLETE_ATTEMPT_TIMEOUT_SECONDS == 3600

\* An instant of the IST clock, in seconds: the given second of the given day
Instant(day, second) == day * (24 * 60 * 60) + second

\* A Float percentage, kept exact as <<numerator, denominator>>
Percentage(part, whole) ==
    IF whole > 0 /\ part # 0 THEN <<part * 100, whole>> ELSE <<0, 1>>

\* models.PaperAttempt: the columns the handlers read and write; started_at and
\* completed_at are instants in seconds
PaperAttempt(total, ist_now) ==
    [ total_questions |-> total,
      correct_answers |-> 0,
      wrong_answers |-> 0,
      accuracy |-> Percentage(0, total),
      score |-> 0,
      points_earned |-> 0,
      started_at |-> ist_now,
      completed_at |-> None ]

\* reward_system.update_user_question_count
update_user_question_count(u, questions_attempted) ==
    [u EXCEPT !.total_questions_attempted = u.total_questions_attempted + questions_attempted]

\* user_routes.login: the user object after the assignments of the daily
\* bonus, made when no bonus was given today
login_assigned(u, day) ==
    LET last_bonus_date == u.last_daily_login_bonus_date
    IN  IF last_bonus_date = None \/ last_bonus_date[1] < day
        THEN [u EXCEPT !.total_points = u.total_points + DailyLoginBonus,
                       !.last_daily_login_bonus_date = Some(day)]
        ELSE u

\* user_routes.save_practice_session: the user object after
\* current_user.total_points += points_earned
save_practice_session_assigned(u, session_data) ==
    LET attempted_questions == session_data[1] + session_data[2]
        points_earned == calculate_points(session_data[1], session_data[3],
                                          Some(attempted_questions))
    IN  [u EXCEPT !.total_points = u.total_points + points_earned]

\* main.submit_paper_attempt: the user object after
\* current_user.total_points += points_earned, on an attempt that is open
submit_paper_attempt_assigned(u, attempts, attempt_id, counts) ==
    IF attempt_id \notin 1..Len(attempts) THEN u
    ELSE IF attempts[attempt_id].completed_at # None THEN u
    ELSE LET points_earned == calculate_points(counts[1],
                                               attempts[attempt_id].total_questions,
                                               Some(counts[1] + counts[2]))
         IN  [u EXCEPT !.total_points = u.total_points + points_earned]

\* user_routes.update_student_points: the student object after
\* student.total_points = max(0, request.points)
update_student_points_assigned(u, points) ==
    [u EXCEPT !.total_points = Max(0, points)]

\* login: the daily login bonus block (the login itself always succeeds)
login_daily_bonus(u, logs, day) ==
    LET last_bonus_date == u.last_daily_login_bonus_date
    IN  IF last_bonus_date = None \/ last_bonus_date[1] < day
        THEN LET u1 == login_assigned(u, day)
                 logged == log_points(logs, DailyLoginBonus, "daily_login", None)
             IN  IF logged.raised
                 THEN \* except: db.rollback(), login continues
                      [ user |-> u, points_logs |-> logs, status |-> 200 ]
                 ELSE [ user |-> u1, points_logs |-> logged.points_logs, status |-> 200 ]
        ELSE [ user |-> u, points_logs |-> logs, status |-> 200 ]

\* save_practice_session with the session row committed at the flush, before
\* the points are logged
save_practice_session_commit_at_flush(u, sessions, logs, session_data, day) ==
    LET attempted_questions == session_data[1] + session_data[2]
        points_earned == calculate_points(session_data[1], session_data[3],
                                          Some(attempted_questions))
        sessions1 == Append(sessions,
                            PracticeSession(session_data[1], session_data[2],
                                            session_data[3], points_earned, day))
        u1 == save_practice_session_assigned(u, session_data)
        logged == log_points(logs, points_earned, "mental_math", Some(Len(sessions1)))
    IN  IF logged.raised
        THEN [ user |-> u, practice_sessions |-> sessions1, points_logs |-> logs,
               status |-> 500, scheduled |-> FALSE ]
        ELSE [ user |-> update_user_question_count(u1, attempted_questions),
               practice_sessions |-> sessions1, points_logs |-> logged.points_logs,
               status |-> 200, scheduled |-> TRUE ]

\* user_routes.save_practice_session: session_data is
\* <<correct_answers, wrong_answers, total_questions>>; `scheduled` tells whether
\* process_practice_session_async was added to the background tasks
save_practice_session(u, sessions, logs, session_data, day) ==
    LET attempted_questions == session_data[1] + session_data[2]
        points_earned == calculate_points(session_data[1], session_data[3],
                                          Some(attempted_questions))
        \* db.add(session); db.flush(): the row has its id, nothing is committed
        sessions1 == Append(sessions,
                            PracticeSession(session_data[1], session_data[2],
                                            session_data[3], points_earned, day))
        u1 == save_practice_session_assigned(u, session_data)
        logged == log_points(logs, points_earned, "mental_math", Some(Len(sessions1)))
    IN  IF logged.raised
        THEN \* except Exception: db.rollback(), HTTP 500
             [ user |-> u, practice_sessions |-> sessions, points_logs |-> logs,
               status |-> 500, scheduled |-> FALSE ]
        ELSE \* db.commit()
             [ user |-> update_user_question_count(u1, attempted_questions),
               practice_sessions |-> sessions1, points_logs |-> logged.points_logs,
               status |-> 200, scheduled |-> TRUE ]

\* main.start_paper_attempt
start_paper_attempt(attempts, total, ist_now) ==
    IF Len(attempts) >= MaxAttemptsPerPaper
    THEN [ paper_attempts |-> attempts, status |-> 400 ]
    ELSE [ paper_attempts |-> Append(attempts, PaperAttempt(total, ist_now)),
           status |-> 200 ]

\* main.submit_paper_attempt: the answers are given by the counts they are
\* marked to, <<correct_count, wrong_count>>
submit_paper_attempt(u, attempts, logs, attempt_id, counts, ist_now) ==
    LET unchanged(code) == [ user |-> u, paper_attempts |-> attempts,
                             points_logs |-> logs, status |-> code, scheduled |-> FALSE ]
    IN  IF attempt_id \notin 1..Len(attempts) THEN unchanged(404)
        ELSE IF attempts[attempt_id].completed_at # None
        THEN \* get_ist_now() - completed_at subtracts a naive datetime from an
             \* aware one: TypeError, caught by except Exception
             unchanged(500)
        ELSE LET correct_count == counts[1]
                 wrong_count == counts[2]
                 total == attempts[attempt_id].total_questions
                 attempted_questions == correct_count + wrong_count
                 points_earned == calculate_points(correct_count, total,
                                                   Some(attempted_questions))
                 attempts1 == [attempts EXCEPT ![attempt_id] =
                                  [@ EXCEPT !.correct_answers = correct_count,
                                            !.wrong_answers = wrong_count,
                                            !.accuracy = Percentage(correct_count, total),
                                            !.score = correct_count,
                                            !.points_earned = points_earned,
                                            !.completed_at = Some(ist_now)]]
                 u1 == submit_paper_attempt_assigned(u, attempts, attempt_id, counts)
                 logged == log_points(logs, points_earned, "paper_attempt",
                                      Some(attempt_id))
             IN  IF logged.raised
                 THEN unchanged(500)
                 ELSE [ user |-> update_user_question_count(u1, attempted_questions),
                        paper_attempts |-> attempts1,
                        points_logs |-> logged.points_logs,
                        status |-> 200, scheduled |-> TRUE ]

\* The columns written when an attempt is marked as abandoned
abandoned(attempt, ist_now) ==
    [attempt EXCEPT !.completed_at = Some(ist_now),
                    !.correct_answers = 0,
                    !.wrong_answers = 0,
                    !.accuracy = Percentage(0, attempt.total_questions),
                    !.score = 0,
                    !.points_earned = 0]

\* cleanup_stale_incomplete_attempts with the threshold included
cleanup_stale_incomplete_attempts_inclusive(attempts, ist_now) ==
    LET timeout_threshold == ist_now - INCOMPLETE_ATTEMPT_TIMEOUT_SECONDS
    IN  [ i \in 1..Len(attempts) |->
            IF attempts[i].completed_at = None /\ attempts[i].started_at <= timeout_threshold
            THEN abandoned(attempts[i], ist_now)
            ELSE attempts[i] ]

\* main.cleanup_stale_incomplete_attempts: the rows after its commit
cleanup_stale_incomplete_attempts(attempts, ist_now) ==
    LET timeout_threshold == ist_now - INCOMPLETE_ATTEMPT_TIMEOUT_SECONDS
    IN  [ i \in 1..Len(attempts) |->
            IF attempts[i].completed_at = None /\ attempts[i].started_at < timeout_threshold
            THEN abandoned(attempts[i], ist_now)
            ELSE attempts[i] ]

\* main.get_paper_attempt: an incomplete attempt that is read after the timeout
\* is marked as abandoned
get_paper_attempt(attempts, attempt_id, ist_now) ==
    IF attempt_id \notin 1..Len(attempts)
    THEN [ paper_attempts |-> attempts, status |-> 404 ]
    ELSE IF attempts[attempt_id].completed_at = None
            /\ ist_now - attempts[attempt_id].started_at > INCOMPLETE_ATTEMPT_TIMEOUT_SECONDS
         THEN [ paper_attempts |->
                    [attempts EXCEPT ![attempt_id] = abandoned(attempts[attempt_id], ist_now)],
                status |-> 200 ]
         ELSE [ paper_attempts |-> attempts, status |-> 200 ]

\* user_routes.update_student_points: an exception of log_points is not caught;
\* the request ends with HTTP 500 and the session is closed uncommitted
update_student_points(u, logs, points) ==
    LET old_points == u.total_points
        points_change == points - old_points
        u1 == update_student_points_assigned(u, points)
        logged == IF points_change # 0
                  THEN log_points(logs, points_change, "admin_adjustment", None)
                  ELSE [ raised |-> FALSE, points_logs |-> logs ]
    IN  IF logged.raised
        THEN [ user |-> u, points_logs |-> logs, status |-> 500 ]
        ELSE [ user |-> u1, points_logs |-> logged.points_logs, status |-> 200 ]

\* reward_system.use_grace_skip: the user object and the ledger after the call,
\* the value returned and whether the call raised.  A raise leaves the
\* assignment made before it on the user object.
use_grace_skip(u, logs, day) ==
    IF ~can_use_grace_skip(u, day)
    THEN [ user |-> u, points_logs |-> logs, success |-> FALSE, raised |-> FALSE ]
    ELSE
    LET u1 == [u EXCEPT !.total_points = Max(0, u.total_points - GraceSkipCost)]
        logged == log_points(logs, 0 - GraceSkipCost, "grace_skip", None)
        current_week_start == day - weekday(day)
        u2 == IF u1.grace_skip_week_start = None
              THEN [u1 EXCEPT !.grace_skip_week_start = Some(current_week_start)]
              ELSE IF current_week_start > u1.grace_skip_week_start[1]
                   THEN [u1 EXCEPT !.grace_skip_week_start = Some(current_week_start)]
                   ELSE u1
    IN  IF logged.raised
        THEN [ user |-> u1, points_logs |-> logs, success |-> FALSE, raised |-> TRUE ]
        ELSE [ user |-> [u2 EXCEPT !.last_grace_skip_date = Some(day)],
               points_logs |-> logged.points_logs, success |-> TRUE, raised |-> FALSE ]

\* user_routes.redeem_grace_skip: the user object after the call of
\* use_grace_skip, made when can_use_grace_skip has said yes
redeem_grace_skip_assigned(u, logs, day) ==
    IF can_use_grace_skip(u, day) THEN use_grace_skip(u, logs, day).user ELSE u

\* user_routes.redeem_grace_skip
redeem_grace_skip(u, logs, day) ==
    IF ~can_use_grace_skip(u, day)
    THEN [ user |-> u, points_logs |-> logs, status |-> 400 ]
    ELSE LET used == use_grace_skip(u, logs, day)
         IN  IF used.raised \/ ~used.success
             THEN \* uncaught exception, or success False: HTTP 500, the session
                  \* is closed uncommitted
                  [ user |-> u, points_logs |-> logs, status |-> 500 ]
             ELSE [ user |-> used.user, points_logs |-> used.points_logs, status |-> 200 ]

\* user_routes.reset_all_progress_data: the User columns it zeroes
reset_user(u) ==
    [u EXCEPT !.total_points = 0,
              !.current_streak = 0,
              !.longest_streak = 0,
              !.last_practice_date = None,
              !.total_questions_attempted = 0,
              !.last_grace_skip_date = None,
              !.grace_skip_week_start = None,
              !.last_daily_login_bonus_date = None]

\* user_routes.process_practice_session_async, run for a committed session
\* with the attempted_questions of that session: the user row and the Reward
\* rows as it commits them.  None of its steps raises; the leaderboard
\* refresh that follows the commit touches neither.
process_practice_session_async(u, sessions, rws, course, attempted_questions, day) ==
    LET u1 == update_user_question_count(u, attempted_questions)
        u2 == IF course = Some("Abacus")
              THEN update_streak(u1, sessions, day, attempted_questions)
              ELSE u1
        lifetime == check_and_award_lifetime_badges(u2, rws)
        super == check_and_award_super_rewards(u2, lifetime.rewards)
    IN  [ user |-> u2, rewards |-> commit_rewards(super.rewards) ]

\* main.process_paper_attempt_async: it reads the user and the profile only
process_paper_attempt_async(u, sessions, rws, course, attempted_questions, day) ==
    LET u1 == update_user_question_count(u, attempted_questions)
        u2 == IF course = Some("Vedic Maths")
              THEN update_streak(u1, sessions, day, attempted_questions)
              ELSE u1
        super == check_and_award_super_rewards(u2, rws)
        lifetime == check_and_award_lifetime_badges(u2, super.rewards)
    IN  [ user |-> u2, rewards |-> commit_rewards(lifetime.rewards) ]

\* the statements of a deferred phase inside its try block, up to db.commit()
StepsBeforeCommit ==
    { "update_user_question_count", "update_streak", "check_and_award_lifetime_badges",
      "check_and_award_super_rewards", "commit" }

\* the leaderboard refreshes after the commit, each in a try block of its own
StepsAfterCommit == { "update_leaderboard", "update_weekly_leaderboard" }

\* whether the statement named raising is reached by a deferred phase whose
\* streak update is made for streak_course
step_executed(raising, course, streak_course) ==
    /\ raising \in StepsBeforeCommit \cup StepsAfterCommit
    /\ raising = "update_streak" => course = Some(streak_course)

\* process_practice_session_async with no try / except around its statements
process_practice_session_async_uncaught(u, sessions, rws, course, attempted_questions, day, raising) ==
    IF step_executed(raising, course, "Abacus")
    THEN [ user |-> u, rewards |-> rollback_rewards(rws), raised |-> TRUE ]
    ELSE LET done == process_practice_session_async(u, sessions, rws, course,
                                                    attempted_questions, day)
         IN  [ user |-> done.user, rewards |-> done.rewards, raised |-> FALSE ]

\* user_routes.process_practice_session_async when the statement named raising
\* (if any, and if reached) raises: before the commit the except branch rolls
\* the database session back, after it the exception is printed and dropped
process_practice_session_async_raising(u, sessions, rws, course, attempted_questions, day, raising) ==
    IF step_executed(raising, course, "Abacus") /\ raising \in StepsBeforeCommit
    THEN [ user |-> u, rewards |-> rollback_rewards(rws), raised |-> FALSE ]
    ELSE LET done == process_practice_session_async(u, sessions, rws, course,
                                                    attempted_questions, day)
         IN  [ user |-> done.user, rewards |-> done.rewards, raised |-> FALSE ]

\* main.process_paper_attempt_async when the statement named raising raises
process_paper_attempt_async_raising(u, sessions, rws, course, attempted_questions, day, raising) ==
    IF step_executed(raising, course, "Vedic Maths") /\ raising \in StepsBeforeCommit
    THEN [ user |-> u, rewards |-> rollback_rewards(rws), raised |-> FALSE ]
    ELSE LET done == process_paper_attempt_async(u, sessions, rws, course,
                                                 attempted_questions, day)
         IN  [ user |-> done.user, rewards |-> done.rewards, raised |-> FALSE ]

(***************************************************************************)
(* The last operation, kept for stating the claims: its name, its input,   *)
(* the user row before it and whether it raised.                           *)
(***************************************************************************)
NoDb == [ practice_sessions |-> <<>>, points_logs |-> <<>>, paper_attempts |-> <<>> ]

\* a direct call of a function
Op(name, q, pre, raised) ==
    [ op |-> name, q |-> q, pre |-> pre, raised |-> raised, status |-> 0, pre_db |-> NoDb ]

\* an HTTP request: its status code and the tables before it
Request(name, q, pre, status, pre_db) ==
    [ op |-> name, q |-> q, pre |-> pre, raised |-> FALSE, status |-> status,
      pre_db |-> pre_db ]

\* The workers of the server: each runs one request or background task at a
\* time, on a database session of its own
Workers == 1..2

\* a worker with nothing to do
Idle ==
    [ pc |-> "idle", op |-> "none", q |-> <<>>, loaded |-> NewUser,
      attempts |-> <<>>, local |-> NewUser, pending |-> <<>>, step |-> 0 ]

NoRequests == [ w \in Workers |-> Idle ]

\* the UPDATE of a commit: the columns the session assigned on its object are
\* written with the values it holds, the others stay as the table has them
flush_user(row, loaded, local) ==
    [ c \in DOMAIN row |-> IF local[c] # loaded[c] THEN local[c] ELSE row[c] ]

NoCalc ==
    [ stage |-> "idle", correct_answers |-> 0, wrong_answers |-> 0,
      total_questions |-> 0, points |-> 0, points_for_attempt |-> 0 ]

(***************************************************************************)
(* SpecPoints: the points calculation applied to bounded inputs.           *)
(***************************************************************************)
\* smallest correct / wrong count fed to the points calculation
MinCount == 0 - 1

InitPoints ==
    /\ today = 0
    /\ user = NewUser
    /\ profile_course = None
    /\ practice_sessions = <<>>
    /\ points_logs = <<>>
    /\ rewards = <<>>
    /\ paper_attempts = <<>>
    /\ last = Op("init", 0, NewUser, FALSE)
    /\ in_flight = NoRequests
    /\ \E c \in MinCount..MaxCount, w \in MinCount..MaxCount, unanswered \in {0, 2} :
          calc = [ stage |-> "input", correct_answers |-> c, wrong_answers |-> w,
                   total_questions |-> c + w + unanswered,
                   points |-> 0, points_for_attempt |-> 0 ]

\* the call of save_practice_session / submit_paper_attempt:
\* attempted_questions = correct + wrong is passed to calculate_points
CalculatePoints ==
    /\ calc.stage = "input"
    /\ LET attempted_questions == calc.correct_answers + calc.wrong_answers
       IN  calc' = [ calc EXCEPT
                       !.stage = "done",
                       !.points = calculate_points(calc.correct_answers,
                                                   calc.total_questions,
                                                   Some(attempted_questions)),
                       !.points_for_attempt =
                           calculate_points_for_attempt(calc.total_questions,
                                                        calc.correct_answers,
                                                        attempted_questions) ]
    /\ UNCHANGED <<today, user, profile_course, practice_sessions, points_logs,
                   rewards, paper_attempts, last, in_flight>>

NextPoints == CalculatePoints

SpecPoints == InitPoints /\ [][NextPoints]_vars

(***************************************************************************)
(* SpecStreak: the two streak functions applied to one user, with the      *)
(* practice_sessions table and the calendar as their environment.          *)
(***************************************************************************)

\* (correct, wrong, total_questions) of a completed session; a session never
\* has more answers than questions
SessionInputs == { <<5, 2, 10>>, <<12, 3, 15>> }

\* values of the questions argument of the streak functions
QuestionCounts == { 0, 7, 8, 15 }

\* total_points of an existing account: none yet, or the price of a grace skip
InitialPoints == { 0, GraceSkipCost }

InitStreak ==
    /\ today = 0
    /\ \E p \in InitialPoints : user = [NewUser EXCEPT !.total_points = p]
    /\ profile_course = Some("Abacus")
    /\ practice_sessions = <<>>
    /\ points_logs = <<>>
    /\ rewards = <<>>
    /\ paper_attempts = <<>>
    /\ last = Op("init", 0, user, FALSE)
    /\ in_flight = NoRequests
    /\ calc = NoCalc

\* a practice_sessions row completed today is in the table
SessionCompleted ==
    /\ Len(practice_sessions) < MaxSessions
    /\ \E in \in SessionInputs :
          practice_sessions' =
              Append(practice_sessions,
                     PracticeSession(in[1], in[2], in[3],
                                     calculate_points(in[1], in[3], Some(in[1] + in[2])),
                                     today))
    /\ last' = Op("session_completed", 0, user, FALSE)
    /\ UNCHANGED <<today, user, profile_course, points_logs, rewards, paper_attempts, calc,
                   in_flight>>

\* gamification.update_streak(db, user, questions_practiced_today = q)
UpdateStreak ==
    /\ \E q \in QuestionCounts :
          /\ user' = update_streak(user, practice_sessions, today, q)
          /\ last' = Op("update_streak", q, user, FALSE)
    /\ UNCHANGED <<today, profile_course, practice_sessions, points_logs, rewards,
                   paper_attempts, calc, in_flight>>

\* reward_system.update_streak_with_grace_skip(db, user, questions_attempted_today = q)
UpdateStreakWithGraceSkip ==
    /\ \E q \in QuestionCounts :
          LET r == update_streak_with_grace_skip(user, practice_sessions, points_logs,
                                                 rewards, today, q)
          IN  /\ user' = r.user
              /\ points_logs' = r.points_logs
              /\ rewards' = r.rewards
              /\ last' = Op("update_streak_with_grace_skip", q, user, r.raised)
    /\ UNCHANGED <<today, profile_course, practice_sessions, paper_attempts, calc, in_flight>>

\* midnight IST passes
NextDay ==
    /\ today < MaxDay
    /\ today' = today + 1
    /\ last' = Op("next_day", 0, user, FALSE)
    /\ UNCHANGED <<user, profile_course, practice_sessions, points_logs, rewards,
                   paper_attempts, calc, in_flight>>

NextStreak ==
    \/ SessionCompleted
    \/ UpdateStreak
    \/ UpdateStreakWithGraceSkip
    \/ NextDay

SpecStreak == InitStreak /\ [][NextStreak]_vars

(***************************************************************************)
(* Claims about the points calculation (SpecPoints).                       *)
(***************************************************************************)

\* C2: for attempted >= 0 and 0 <= correct <= attempted the points of an
\* attempt are attempted*1 + correct*5, never negative, and calculate_points
\* (given attempted_questions) agrees with calculate_points_for_attempt.
C2_PointsFormula ==
    (calc.stage = "done" /\ calc.correct_answers >= 0 /\ calc.wrong_answers >= 0) =>
        LET attempted == calc.correct_answers + calc.wrong_answers
        IN  /\ calc.points = attempted * 1 + calc.correct_answers * 5
            /\ calc.points >= 0
            /\ calc.points_for_attempt = calc.points

C2_Witness ==
    /\ calc.stage = "done"
    /\ calc.correct_answers = 12
    /\ calc.wrong_answers = 3
    /\ calc.total_questions = 17
    /\ calc.points = 75
    /\ calc.points_for_attempt = 75

(***************************************************************************)
(* Claims about the streak transition (SpecStreak).                        *)
(***************************************************************************)
StreakOps == { "update_streak", "update_streak_with_grace_skip" }

\* today's cumulative attempted count as the last streak update took it:
\* update_streak adds its argument to today's sessions,
\* update_streak_with_grace_skip is handed the count
LastCount ==
    IF last.op = "update_streak"
    THEN total_questions_today(practice_sessions, today, last.q)
    ELSE last.q

YesterdayAttempted == attempted_on(practice_sessions, today - 1, Len(practice_sessions))

\* C3: current_streak <= longest_streak in every state reachable by streak updates.
C3_StreakBelowLongest ==
    user.current_streak <= user.longest_streak

C8_GapBroken ==
    ( /\ last.op \in StreakOps
      /\ last.pre.last_practice_date # None
      /\ today - last.pre.last_practice_date[1] >= 2 )
    => user.current_streak = (IF LastCount >= StreakThreshold THEN 1 ELSE 0)

C8_Witness ==
    /\ last.op = "update_streak"
    /\ last.pre.last_practice_date = Some(today - 2)
    /\ last.pre.current_streak = 2
    /\ LastCount >= StreakThreshold
    /\ user.current_streak = 1

\* C9: an update on the day of last_practice_date sets current_streak to 0 when
\* today's count is below 15 and leaves it unchanged when the count is >= 15.
C9_SameDayDilution ==
    (last.op \in StreakOps /\ last.pre.last_practice_date = Some(today))
    => IF LastCount < StreakThreshold
       THEN user.current_streak = 0
       ELSE user.current_streak = last.pre.current_streak

C9_Witness ==
    /\ last.op = "update_streak"
    /\ last.pre.last_practice_date = Some(today)
    /\ last.pre.current_streak >= 1
    /\ LastCount < StreakThreshold
    /\ user.current_streak = 0

\* C10: a second run of the streak transition with unchanged inputs (same day,
\* same count) leaves current_streak and longest_streak as the first run did.
C10_StreakIdempotent ==
    /\ last.op = "update_streak" =>
          LET again == update_streak(user, practice_sessions, today, last.q)
          IN  /\ again.current_streak = user.current_streak
              /\ again.longest_streak = user.longest_streak
    /\ (last.op = "update_streak_with_grace_skip" /\ ~last.raised) =>
          LET again == update_streak_with_grace_skip(user, practice_sessions, points_logs,
                                                     rewards, today, last.q).user
          IN  /\ again.current_streak = user.current_streak
              /\ again.longest_streak = user.longest_streak

(***************************************************************************)
(* Spec: the request handlers acting on one student's rows.                *)
(* process_practice_session_async and process_paper_attempt_async are      *)
(* added to the background tasks only after the commit of the fast path;   *)
(* log_points raises before it, so no deferred phase is ever scheduled.    *)
(***************************************************************************)

\* requested total_points of an admin adjustment
AdminPoints == { 0 - 5, 0, 50, GraceSkipCost }

\* total_questions of a started paper
PaperTotals == { 10 }

\* (correct_count, wrong_count) the submitted answers are marked to
AnswerCounts == { <<6, 2>>, <<10, 0>> }

Db == [ practice_sessions |-> practice_sessions, points_logs |-> points_logs,
        paper_attempts |-> paper_attempts ]

\* The database the server is started on: a newly registered student, with no
\* points and an empty ledger.
Init ==
    /\ today = 0
    /\ user = NewUser
    /\ points_logs = <<>>
    /\ profile_course = None
    /\ practice_sessions = <<>>
    /\ rewards = <<>>
    /\ paper_attempts = <<>>
    /\ last = Op("init", 0, user, FALSE)
    /\ in_flight = NoRequests
    /\ calc = NoCalc

\* user_routes.login: the user of the token is found, or created and committed
\* with a profile that names no course, and then the daily bonus is tried
login(u, logs, day) ==
    LET found == IF u = None THEN NewUser ELSE u
        r == login_daily_bonus(found, logs, day)
    IN  [ user |-> r.user, points_logs |-> r.points_logs, status |-> r.status,
          found |-> found ]

\* user_routes.delete_student: the student row is deleted and, by the cascade
\* of its relationships, its practice sessions, paper attempts, rewards,
\* ledger rows and profile with it; 404 when there is no such student
delete_student(u, db) ==
    IF u = None
    THEN [ user |-> u, db |-> db, status |-> 404 ]
    ELSE [ user |-> None,
           db |-> [ practice_sessions |-> <<>>, points_logs |-> <<>>,
                    paper_attempts |-> <<>>, rewards |-> <<>>, profile_course |-> None ],
           status |-> 200 ]

\* student_profile_utils.VALID_COURSES
VALID_COURSES == { "Abacus", "Vedic Maths", "Handwriting" }

\* `if profile_data.course:` -- the course of the body is validated only when
\* it is truthy: None and the empty string pass unchecked
course_rejected(profile_data_course) ==
    /\ profile_data_course # None
    /\ profile_data_course[1] # ""
    /\ profile_data_course[1] \notin VALID_COURSES

\* user_routes.update_student_profile_by_id: the course of the student's profile
\* after the request of an admin whose body names profile_data_course
\* (Optional); a profile that is missing is created for an existing user, and
\* a course that is not None, the empty string included, is stored
update_student_profile_by_id(u, course, profile_data_course) ==
    IF u = None THEN [ profile_course |-> course, status |-> 404 ]
    ELSE IF course_rejected(profile_data_course)
    THEN [ profile_course |-> course, status |-> 400 ]
    ELSE [ profile_course |-> IF profile_data_course # None THEN profile_data_course
                              ELSE course,
           status |-> 200 ]

\* user_routes.update_student_profile: the student's own request.  The profile
\* is found or created; a body that provides an admin-only field, with any
\* value, is answered 403, and the fields a student may edit do not touch
\* the course
update_student_profile(course, provided_fields, profile_data_course) ==
    IF "course" \in provided_fields
    THEN [ profile_course |-> course, status |-> 403 ]
    ELSE IF course_rejected(profile_data_course)
    THEN [ profile_course |-> course, status |-> 400 ]
    ELSE [ profile_course |-> IF profile_data_course # None THEN profile_data_course
                              ELSE course,
           status |-> 200 ]

\* the course field of the request body: absent or null, two valid courses,
\* an invalid one, the empty string
ProfileCourses == { None, Some("Abacus"), Some("Vedic Maths"), Some("Chess"), Some("") }

\* the fields a request body provides (model_dump(exclude_unset=True))
ProvidedFields == SUBSET { "course", "display_name" }

\* the requests of a student, answered 404 by get_current_user (or by the
\* admin handler's own query) when the student's row is gone
StudentRequests ==
    { "save_practice_session", "start_paper_attempt", "submit_paper_attempt",
      "get_paper_attempts", "get_paper_attempt", "update_student_profile",
      "update_student_points", "redeem_grace_skip" }

\* POST /users/login of the student
Login ==
    /\ LET r == login(user, points_logs, today)
       IN  /\ user' = r.user
           /\ points_logs' = r.points_logs
           /\ last' = Request("login", 0, r.found, r.status, Db)
    /\ UNCHANGED <<today, profile_course, practice_sessions, rewards, paper_attempts, calc,
                   in_flight>>

\* DELETE /users/admin/students/{student_id}
DeleteStudent ==
    /\ LET r == delete_student(user, [ practice_sessions |-> practice_sessions,
                                       points_logs |-> points_logs,
                                       paper_attempts |-> paper_attempts,
                                       rewards |-> rewards,
                                       profile_course |-> profile_course ])
       IN  /\ user' = r.user
           /\ practice_sessions' = r.db.practice_sessions
           /\ points_logs' = r.db.points_logs
           /\ paper_attempts' = r.db.paper_attempts
           /\ rewards' = r.db.rewards
           /\ profile_course' = r.db.profile_course
           /\ last' = Request("delete_student", 0, user, r.status, Db)
    /\ UNCHANGED <<today, calc, in_flight>>

\* a request for a student whose row was deleted
UserNotFound ==
    /\ user = None
    /\ \E name \in StudentRequests : last' = Request(name, None, user, 404, Db)
    /\ UNCHANGED <<today, user, profile_course, practice_sessions, points_logs, rewards,
                   paper_attempts, calc, in_flight>>

\* POST /users/practice-session
SavePracticeSession ==
    /\ user # None
    /\ Len(practice_sessions) < MaxSessions
    /\ \E in \in SessionInputs :
          LET r == save_practice_session(user, practice_sessions, points_logs, in, today)
          IN  /\ user' = r.user
              /\ practice_sessions' = r.practice_sessions
              /\ points_logs' = r.points_logs
              /\ last' = Request("save_practice_session", in, user, r.status, Db)
    /\ UNCHANGED <<today, profile_course, rewards, paper_attempts, calc, in_flight>>

\* POST /papers/attempt
StartPaperAttempt ==
    /\ user # None
    /\ \E total \in PaperTotals :
          LET r == start_paper_attempt(paper_attempts, total, Instant(today, 0))
          IN  /\ paper_attempts' = r.paper_attempts
              /\ last' = Request("start_paper_attempt", total, user, r.status, Db)
    /\ UNCHANGED <<today, user, profile_course, practice_sessions, points_logs, rewards, calc,
                   in_flight>>

\* PUT /papers/attempt/{attempt_id}
SubmitPaperAttempt ==
    /\ user # None
    /\ \E attempt_id \in 1..(MaxAttemptsPerPaper + 1), counts \in AnswerCounts :
          LET r == submit_paper_attempt(user, paper_attempts, points_logs, attempt_id,
                                        counts, Instant(today, 0))
          IN  /\ user' = r.user
              /\ paper_attempts' = r.paper_attempts
              /\ points_logs' = r.points_logs
              /\ last' = Request("submit_paper_attempt", <<attempt_id, counts[1], counts[2]>>,
                                 user, r.status, Db)
    /\ UNCHANGED <<today, profile_course, practice_sessions, rewards, calc, in_flight>>

\* GET /papers/attempts: the user's stale attempts are swept before the listing
GetPaperAttempts ==
    /\ user # None
    /\ paper_attempts' = cleanup_stale_incomplete_attempts(paper_attempts, Instant(today, 0))
    /\ last' = Request("get_paper_attempts", None, user, 200, Db)
    /\ UNCHANGED <<today, user, profile_course, practice_sessions, points_logs, rewards, calc,
                   in_flight>>

\* GET /papers/attempt/{attempt_id}
GetPaperAttempt ==
    /\ user # None
    /\ \E attempt_id \in 1..(MaxAttemptsPerPaper + 1) :
          LET r == get_paper_attempt(paper_attempts, attempt_id, Instant(today, 0))
          IN  /\ paper_attempts' = r.paper_attempts
              /\ last' = Request("get_paper_attempt", attempt_id, user, r.status, Db)
    /\ UNCHANGED <<today, user, profile_course, practice_sessions, points_logs, rewards, calc,
                   in_flight>>

\* PUT /users/profile
UpdateStudentProfile ==
    /\ user # None
    /\ \E provided_fields \in ProvidedFields, profile_data_course \in ProfileCourses :
          /\ "course" \notin provided_fields => profile_data_course = None
          /\ LET r == update_student_profile(profile_course, provided_fields,
                                             profile_data_course)
             IN  /\ profile_course' = r.profile_course
                 /\ last' = Request("update_student_profile",
                                    <<provided_fields, profile_data_course>>, user,
                                    r.status, Db)
    /\ UNCHANGED <<today, user, practice_sessions, points_logs, rewards, paper_attempts,
                   calc, in_flight>>

\* PUT /users/profile/{user_id}
UpdateStudentProfileById ==
    /\ \E profile_data_course \in ProfileCourses :
          LET r == update_student_profile_by_id(user, profile_course, profile_data_course)
          IN  /\ profile_course' = r.profile_course
              /\ last' = Request("update_student_profile_by_id", profile_data_course, user,
                                 r.status, Db)
    /\ UNCHANGED <<today, user, practice_sessions, points_logs, rewards, paper_attempts,
                   calc, in_flight>>

\* PUT /users/admin/students/{student_id}/points
UpdateStudentPoints ==
    /\ user # None
    /\ \E points \in AdminPoints :
          LET r == update_student_points(user, points_logs, points)
          IN  /\ user' = r.user
              /\ points_logs' = r.points_logs
              /\ last' = Request("update_student_points", points, user, r.status, Db)
    /\ UNCHANGED <<today, profile_course, practice_sessions, rewards, paper_attempts, calc,
                   in_flight>>

\* POST /users/rewards/grace-skip
RedeemGraceSkip ==
    /\ user # None
    /\ LET r == redeem_grace_skip(user, points_logs, today)
       IN  /\ user' = r.user
           /\ points_logs' = r.points_logs
           /\ last' = Request("redeem_grace_skip", 0, user, r.status, Db)
    /\ UNCHANGED <<today, profile_course, practice_sessions, rewards, paper_attempts, calc,
                   in_flight>>

\* POST /users/admin/reset-progress: practice sessions, paper attempts and
\* rewards are deleted and the user columns zeroed; points_logs is not touched
ResetAllProgressData ==
    /\ practice_sessions' = <<>>
    /\ paper_attempts' = <<>>
    /\ rewards' = <<>>
    /\ user' = IF user = None THEN None ELSE reset_user(user)
    /\ last' = Request("reset_all_progress_data", 0, user, 200, Db)
    /\ UNCHANGED <<today, profile_course, points_logs, calc, in_flight>>

Next ==
    \/ Login
    \/ SavePracticeSession
    \/ StartPaperAttempt
    \/ SubmitPaperAttempt
    \/ GetPaperAttempts
    \/ GetPaperAttempt
    \/ UpdateStudentProfile
    \/ UpdateStudentProfileById
    \/ UpdateStudentPoints
    \/ RedeemGraceSkip
    \/ ResetAllProgressData
    \/ DeleteStudent
    \/ UserNotFound
    \/ NextDay

Spec == Init /\ [][Next]_vars

(***************************************************************************)
(* Claims about the ledger and the fast path (Spec).                       *)
(***************************************************************************)

\* C1: after every operation the sum of the user's PointsLog entries equals
\* user.total_points (get_points_summary returns match = true).
C1_Reconciliation ==
    get_points_summary(points_logs, user).match

\* C4: a new user's first practice session with attempted = 15 and correct = 12,
\* once processed, leaves total_points = 75, current_streak = 1 and exactly one
\* PointsLog entry of 75 points with source_type "mental_math".
C4_EndToEnd ==
    ( /\ last.op = "save_practice_session"
      /\ last.q = <<12, 3, 15>>
      /\ last.pre = NewUser
      /\ last.pre_db.practice_sessions = <<>> )
    => /\ user.total_points = 75
       /\ user.current_streak = 1
       /\ Cardinality({ i \in 1..Len(points_logs) :
                          /\ points_logs[i].points = 75
                          /\ points_logs[i].source_type = "mental_math" }) = 1

\* C5: a practice-session save or paper-attempt submit either commits the
\* record, the PointsLog entry and the total_points increase together, or
\* fails and persists none of them.
C5_FastPathAtomic ==
    /\ last.op = "save_practice_session" =>
          IF last.status = 200
          THEN /\ Len(practice_sessions) = Len(last.pre_db.practice_sessions) + 1
               /\ Len(points_logs) = Len(last.pre_db.points_logs) + 1
               /\ points_logs[Len(points_logs)].points
                      = practice_sessions[Len(practice_sessions)].points_earned
               /\ user.total_points
                      = last.pre.total_points
                        + practice_sessions[Len(practice_sessions)].points_earned
          ELSE /\ practice_sessions = last.pre_db.practice_sessions
               /\ points_logs = last.pre_db.points_logs
               /\ user = last.pre
    /\ last.op = "submit_paper_attempt" =>
          IF last.status = 200
          THEN /\ paper_attempts[last.q[1]].completed_at # None
               /\ last.pre_db.paper_attempts[last.q[1]].completed_at = None
               /\ Len(points_logs) = Len(last.pre_db.points_logs) + 1
               /\ points_logs[Len(points_logs)].points
                      = paper_attempts[last.q[1]].points_earned
               /\ user.total_points
                      = last.pre.total_points + paper_attempts[last.q[1]].points_earned
          ELSE /\ paper_attempts = last.pre_db.paper_attempts
               /\ points_logs = last.pre_db.points_logs
               /\ user = last.pre

C5_Witness ==
    /\ last.op = "save_practice_session"
    /\ last.q = <<12, 3, 15>>
    /\ last.status = 500
    /\ practice_sessions = last.pre_db.practice_sessions
    /\ points_logs = last.pre_db.points_logs
    /\ user = last.pre

\* C6: setting a student's points to any P writes an "admin_adjustment"
\* PointsLog entry whose points equal the actual change of total_points.
C6_AdminAdjustmentLogged ==
    last.op = "update_student_points" =>
        /\ Len(points_logs) = Len(last.pre_db.points_logs) + 1
        /\ points_logs[Len(points_logs)].source_type = "admin_adjustment"
        /\ points_logs[Len(points_logs)].points
               = user.total_points - last.pre.total_points

(***************************************************************************)
(* Further claims about the streak transition (SpecStreak).                *)
(***************************************************************************)

\* C11: after every streak update, current_streak > 0 implies that today's
\* cumulative attempted count is >= 15 (a day that does not qualify ends with
\* current_streak = 0).
C11_PostTransitionSafety ==
    (last.op \in StreakOps /\ ~last.raised) =>
        (user.current_streak > 0 => LastCount >= StreakThreshold)

(***************************************************************************)
(* SpecDeferred: the deferred phase of a practice session, run for the     *)
(* session row that was just committed.                                    *)
(***************************************************************************)
InitDeferred ==
    /\ today = 0
    /\ \E p \in InitialPoints : user = [NewUser EXCEPT !.total_points = p]
    /\ profile_course \in { None, Some("Abacus") }
    /\ practice_sessions = <<>>
    /\ points_logs = <<>>
    /\ rewards = <<>>
    /\ paper_attempts = <<>>
    /\ last = Op("init", 0, user, FALSE)
    /\ in_flight = NoRequests
    /\ calc = NoCalc

\* the background task of the session committed last
ProcessPracticeSessionAsync ==
    /\ last.op = "session_completed"
    /\ LET session == practice_sessions[Len(practice_sessions)]
           attempted_questions == session.correct_answers + session.wrong_answers
           r == process_practice_session_async(user, practice_sessions, rewards,
                                               profile_course, attempted_questions, today)
       IN  /\ user' = r.user
           /\ rewards' = r.rewards
           /\ last' = Op("process_practice_session_async", attempted_questions, user, FALSE)
    /\ UNCHANGED <<today, profile_course, practice_sessions, points_logs,
                   paper_attempts, calc, in_flight>>

NextDeferred ==
    \/ SessionCompleted
    \/ ProcessPracticeSessionAsync
    \/ NextDay

SpecDeferred == InitDeferred /\ [][NextDeferred]_vars

\* C12: when the deferred phase evaluates the streak for the just-committed
\* session, the number it compares with 15 is the sum of correct + wrong over
\* today's sessions, each session (the just-submitted one too) counted once.
C12_QualificationCount ==
    (last.op = "process_practice_session_async" /\ profile_course = Some("Abacus")) =>
        total_questions_today(practice_sessions, today, last.q)
            = attempted_on(practice_sessions, today, Len(practice_sessions))

(***************************************************************************)
(* SpecGrace: the grace-skip functions and the streak functions applied to *)
(* an account that may have redeemed a grace skip before.                  *)
(***************************************************************************)

\* last day of the calendar walked here
MaxGraceDay == 8

\* the day the server is looked at: a Monday, a Saturday, a Sunday, the next Monday
GraceDays == { 0, 5, 6, 7 }

\* total_points of the account
GracePoints == { GraceSkipCost - 1, GraceSkipCost, 2 * GraceSkipCost }

\* the user row after a redemption on day d, as use_grace_skip writes the two
\* grace-skip columns
redeemed_on(u, d) ==
    [u EXCEPT !.grace_skip_week_start = Some(d - weekday(d)),
              !.last_grace_skip_date = Some(d)]

InitGrace ==
    /\ today \in GraceDays
    /\ \E p \in GracePoints, s \in {0, 3}, gap \in 0..2, redeemed \in BOOLEAN, d \in 0..today :
          LET practised ==
                  IF gap = 0 \/ today < gap
                  THEN NewUser
                  ELSE [NewUser EXCEPT !.current_streak = s, !.longest_streak = s,
                                       !.last_practice_date = Some(today - gap)]
              u == [practised EXCEPT !.total_points = p]
          IN  user = IF redeemed THEN redeemed_on(u, d) ELSE u
    /\ profile_course = Some("Abacus")
    /\ practice_sessions = <<>>
    /\ points_logs = <<>>
    /\ rewards = <<>>
    /\ paper_attempts = <<>>
    /\ last = Op("init", 0, user, FALSE)
    /\ in_flight = NoRequests
    /\ calc = NoCalc

\* reward_system.can_use_grace_skip(db, user): q records can_use
CanUseGraceSkip ==
    /\ last' = Op("can_use_grace_skip", can_use_grace_skip(user, today), user, FALSE)
    /\ UNCHANGED <<today, user, profile_course, practice_sessions, points_logs, rewards,
                   paper_attempts, calc, in_flight>>

\* midnight IST passes
GraceNextDay ==
    /\ today < MaxGraceDay
    /\ today' = today + 1
    /\ last' = Op("next_day", 0, user, FALSE)
    /\ UNCHANGED <<user, profile_course, practice_sessions, points_logs, rewards,
                   paper_attempts, calc, in_flight>>

NextGrace ==
    \/ CanUseGraceSkip
    \/ RedeemGraceSkip
    \/ UpdateStreak
    \/ UpdateStreakWithGraceSkip
    \/ GraceNextDay

SpecGrace == InitGrace /\ [][NextGrace]_vars

\* the user redeemed a grace skip in the Monday-to-Sunday week of today
RedeemedThisWeek(u) ==
    /\ u.last_grace_skip_date # None
    /\ u.last_grace_skip_date[1] - weekday(u.last_grace_skip_date[1])
           = today - weekday(today)

\* C13: can_use_grace_skip says yes exactly when total_points >= 2000 and no
\* grace skip was redeemed in the current Monday-anchored week
\* (total_points = 1999 gives can_use = False).
C13_GraceSkipEligibility ==
    last.op = "can_use_grace_skip" =>
        (last.q <=> (user.total_points >= GraceSkipCost /\ ~RedeemedThisWeek(user)))

C13_Witness ==
    /\ last.op = "can_use_grace_skip"
    /\ user.total_points >= GraceSkipCost
    /\ user.last_grace_skip_date = Some(6)
    /\ today = 7
    /\ last.q = TRUE

\* C14: at most one grace skip is redeemed in a Monday-to-Sunday week (a
\* request in a week that already has a redemption is refused, a request that
\* succeeds is the first of its week), and every request that does not succeed
\* leaves total_points, the ledger and the grace-skip columns unchanged.
C14_GraceSkipRateLimit ==
    last.op = "redeem_grace_skip" =>
        /\ RedeemedThisWeek(last.pre) => last.status = 400
        /\ last.status = 200 => ~RedeemedThisWeek(last.pre)
        /\ last.status # 200 =>
              /\ user = last.pre
              /\ points_logs = last.pre_db.points_logs

C14_Witness ==
    /\ last.op = "redeem_grace_skip"
    /\ last.pre.total_points >= GraceSkipCost
    /\ last.pre.last_grace_skip_date = Some(5)
    /\ today = 6
    /\ last.status = 400
    /\ user = last.pre

\* C15: the redemption of a grace skip by an eligible user takes exactly 2000
\* from total_points, writes exactly one PointsLog entry of -2000 with
\* source_type "grace_skip", updates grace_skip_week_start and
\* last_grace_skip_date, and leaves current_streak, longest_streak and
\* last_practice_date unchanged.
C15_GraceSkipRedemptionEffect ==
    (last.op = "redeem_grace_skip" /\ can_use_grace_skip(last.pre, today)) =>
        /\ user.total_points = last.pre.total_points - GraceSkipCost
        /\ Len(points_logs) = Len(last.pre_db.points_logs) + 1
        /\ points_logs[Len(points_logs)].points = 0 - GraceSkipCost
        /\ points_logs[Len(points_logs)].source_type = "grace_skip"
        /\ user.last_grace_skip_date = Some(today)
        /\ user.grace_skip_week_start = Some(today - weekday(today))
        /\ user.current_streak = last.pre.current_streak
        /\ user.longest_streak = last.pre.longest_streak
        /\ user.last_practice_date = last.pre.last_practice_date

\* C16: a user with current_streak > 0 who missed yesterday, redeemed a grace
\* skip for it and then completes a qualifying activity keeps the streak: the
\* streak update does not set it back to 1 or 0 because of the missed day.
C16_GraceSkipPreservesStreak ==
    ( /\ last.op \in StreakOps
      /\ ~last.raised
      /\ last.pre.current_streak > 0
      /\ last.pre.last_practice_date = Some(today - 2)
      /\ last.pre.last_grace_skip_date # None
      /\ last.pre.last_grace_skip_date[1] >= today - 1
      /\ LastCount >= StreakThreshold )
    => user.current_streak >= last.pre.current_streak

(***************************************************************************)
(* SpecBonus: the streak functions applied to a user whose streak stands   *)
(* just below or at a bonus value, late in February 2021.                  *)
(***************************************************************************)

\* the day of the call: 27 and 28 February
BonusDays == { 26, 27 }

\* current_streak before the call
BonusStreaks == { 6, 7, 13, 20, 27, 28 }

\* a qualifying practice session completed on day d
qualifying_session(d) ==
    PracticeSession(12, 3, 15, calculate_points(12, 15, Some(15)), d)

\* the practice_sessions table: one qualifying session yesterday; one on every
\* day of the month up to today; or as many as the month has days, all of
\* them completed yesterday
SessionTables(day) ==
    { << qualifying_session(day - 1) >>,
      [ i \in 1..(day + 1) |-> qualifying_session(i - 1) ],
      [ i \in 1..DaysInMonth(day) |-> qualifying_session(day - 1) ] }

InitBonus ==
    /\ today \in BonusDays
    /\ \E p \in InitialPoints, s \in BonusStreaks, d \in {today - 1, today} :
          user = [NewUser EXCEPT !.total_points = p, !.current_streak = s,
                                 !.longest_streak = s, !.last_practice_date = Some(d)]
    /\ profile_course = Some("Abacus")
    /\ practice_sessions \in SessionTables(today)
    /\ points_logs = <<>>
    /\ rewards \in { <<>>,
                     commit_rewards(<<Reward("monthly_streak", Some(MonthStart(today)), FALSE)>>) }
    /\ paper_attempts = <<>>
    /\ last = Op("init", 0, user, FALSE)
    /\ in_flight = NoRequests
    /\ calc = NoCalc

\* longest streak followed here
MaxBonusStreak == 30

\* gamification.update_streak on the user of this table
BonusUpdateStreak ==
    /\ user.current_streak < MaxBonusStreak
    /\ UpdateStreak

\* reward_system.update_streak_with_grace_skip on the user of this table
BonusUpdateStreakWithGraceSkip ==
    /\ user.current_streak < MaxBonusStreak
    /\ UpdateStreakWithGraceSkip

NextBonus ==
    \/ BonusUpdateStreak
    \/ BonusUpdateStreakWithGraceSkip

SpecBonus == InitBonus /\ [][NextBonus]_vars

\* the flat bonus of a streak value
MilestoneBonus(streak) ==
    IF streak = 7 THEN 50
    ELSE IF streak = 14 THEN 100
    ELSE IF streak = 21 THEN 200
    ELSE 0

\* the PointsLog entries of source_type "streak_bonus"
StreakBonusEntries ==
    { i \in 1..Len(points_logs) : points_logs[i].source_type = "streak_bonus" }

\* C17: a streak update that increments current_streak to exactly 7, 14 or 21
\* adds 50, 100 or 200 to total_points and writes one "streak_bonus" PointsLog
\* entry of that amount; any other update (a re-evaluation on the same day, a
\* streak value off the milestones) credits nothing.
C17_StreakMilestoneBonus ==
    (last.op \in StreakOps /\ user.current_streak < 28) =>
        LET incremented == user.current_streak = last.pre.current_streak + 1
            bonus == IF incremented THEN MilestoneBonus(user.current_streak) ELSE 0
        IN  /\ user.total_points = last.pre.total_points + bonus
            /\ IF bonus > 0
               THEN /\ Cardinality(StreakBonusEntries) = 1
                    /\ \A i \in StreakBonusEntries : points_logs[i].points = bonus
               ELSE StreakBonusEntries = {}

\* every calendar day of the month of today has a qualifying session
EveryDayOfMonthQualifies ==
    \A d \in MonthStart(today)..(MonthStart(today) + DaysInMonth(today) - 1) :
        attempted_on(practice_sessions, d, Len(practice_sessions)) >= StreakThreshold

\* the "Monthly Streak Champion" rows of the month of today
MonthlyStreakBadges ==
    { i \in 1..Len(rewards) :
        /\ rewards[i].badge_type = "monthly_streak"
        /\ rewards[i].month_earned = Some(MonthStart(today)) }

\* C18: the 500-point bonus and the "Monthly Streak Champion" badge are granted
\* only when current_streak >= 28 and every calendar day of the current month
\* has a qualifying session, and each at most once per (user, month).
C18_MonthlyStreakReward ==
    last.op \in StreakOps =>
        LET bonus_granted == user.total_points >= last.pre.total_points + 500
            badge_granted == \E i \in MonthlyStreakBadges : ~rewards[i].flushed
            held_before == \E i \in MonthlyStreakBadges : rewards[i].flushed
        IN  /\ (bonus_granted \/ badge_granted) =>
                  /\ user.current_streak >= 28
                  /\ EveryDayOfMonthQualifies
            /\ (bonus_granted \/ badge_granted) => ~held_before
            /\ Cardinality(MonthlyStreakBadges) <= 1

(***************************************************************************)
(* SpecBadges: the deferred phases of attempts and the monthly evaluations *)
(* of one student, each run to its commit.                                 *)
(***************************************************************************)
MaxRewards == 3          \* rewards rows
MaxQuestions == 510      \* total_questions_attempted up to which attempts are made

\* the months evaluated, each named by its first day
BadgeMonths == { Some(0), Some(28) }

\* attempted_questions of the attempts
BadgeAttempts == { 10, 20 }

\* (accuracy, total_questions) given to the accuracy check
AccuracyInputs == { <<80, 20>>, <<95, 12>>, <<100, 5>> }

\* the student's month as the monthly evaluation finds it
AttendanceInputs == { "none", "partial", "full" }

\* the student's position by total_points; 3 stands for any position past the third
RankInputs == 0..3

\* total_questions_attempted of the existing account, close to the first lifetime badge
InitialQuestions == 490

\* the committed practice sessions whose background tasks are run
BadgeSessions ==
    << PracticeSession(8, 2, 10, calculate_points(8, 10, Some(10)), 0),
       PracticeSession(15, 5, 20, calculate_points(15, 20, Some(20)), 0) >>

InitBadges ==
    /\ today = 0
    /\ \E p \in { 0, SuperRewards[1][1] } :
          user = [NewUser EXCEPT !.total_points = p,
                                 !.total_questions_attempted = InitialQuestions]
    /\ profile_course = None
    /\ practice_sessions = BadgeSessions
    /\ points_logs = <<>>
    /\ rewards = <<>>
    /\ paper_attempts = <<>>
    /\ last = Op("init", 0, user, FALSE)
    /\ in_flight = NoRequests
    /\ calc = NoCalc

\* the background task of a committed practice session, with the
\* attempted_questions its request handed over
BadgesPracticeSessionAsync ==
    /\ user.total_questions_attempted < MaxQuestions
    /\ \E session_id \in 1..Len(practice_sessions) :
          LET attempted_questions == practice_sessions[session_id].correct_answers
                                         + practice_sessions[session_id].wrong_answers
              r == process_practice_session_async(user, practice_sessions, rewards,
                                                  profile_course, attempted_questions, today)
          IN  /\ Len(r.rewards) <= MaxRewards
              /\ user' = r.user
              /\ rewards' = r.rewards
              /\ last' = Op("process_practice_session_async", attempted_questions, user, FALSE)
    /\ UNCHANGED <<today, profile_course, practice_sessions, points_logs,
                   paper_attempts, calc, in_flight>>

\* the background task of a paper attempt
ProcessPaperAttemptAsync ==
    /\ user.total_questions_attempted < MaxQuestions
    /\ \E attempted_questions \in BadgeAttempts :
          LET r == process_paper_attempt_async(user, practice_sessions, rewards,
                                               profile_course, attempted_questions, today)
          IN  /\ Len(r.rewards) <= MaxRewards
              /\ user' = r.user
              /\ rewards' = r.rewards
              /\ last' = Op("process_paper_attempt_async", attempted_questions, user, FALSE)
    /\ UNCHANGED <<today, profile_course, practice_sessions, points_logs,
                   paper_attempts, calc, in_flight>>

\* a run of the monthly evaluation for one month
EvaluateMonthlyBadges ==
    /\ \E attendance \in AttendanceInputs, tshirt \in AttendanceInputs,
          rank \in RankInputs, month_str \in BadgeMonths :
          LET r == evaluate_monthly_badges(rewards, attendance, tshirt, rank, month_str)
          IN  /\ Len(r) <= MaxRewards
              /\ rewards' = r
              /\ last' = Op("evaluate_monthly_badges", <<attendance, month_str>>, user, FALSE)
    /\ UNCHANGED <<today, user, profile_course, practice_sessions, points_logs,
                   paper_attempts, calc, in_flight>>

NextBadges ==
    \/ BadgesPracticeSessionAsync
    \/ ProcessPaperAttemptAsync
    \/ EvaluateMonthlyBadges

SpecBadges == InitBadges /\ [][NextBadges]_vars

\* the rewards rows of one badge type and month (None for a badge without month)
RewardRows(badge_type, month_earned) ==
    { i \in 1..Len(rewards) : /\ rewards[i].badge_type = badge_type
                              /\ rewards[i].month_earned = month_earned }

\* C19: after any sequence of attempts and monthly evaluations the student
\* holds at most one Reward row per badge_type for lifetime, general and SUPER
\* badges and at most one per (badge_type, month_earned) for monthly badges,
\* and a monthly badge held for one month does not block the same badge for
\* another month: an evaluation of a month of full attendance leaves the
\* month's Attendance Champion.
C19_BadgeUniqueness ==
    /\ \A i, j \in 1..Len(rewards) :
          (/\ rewards[i].badge_type = rewards[j].badge_type
           /\ rewards[i].month_earned = rewards[j].month_earned) => i = j
    /\ \A i, j \in 1..Len(rewards) :
          (/\ rewards[i].month_earned = None
           /\ rewards[i].badge_type = rewards[j].badge_type) => i = j
    /\ (last.op = "evaluate_monthly_badges" /\ last.q[1] = "full")
           => Cardinality(RewardRows("attendance_champion", last.q[2])) = 1

\* the Attendance Champion is held for two months, the later award made while
\* the earlier one was held
C19_Witness ==
    /\ last.op = "evaluate_monthly_badges"
    /\ last.q[1] = "full"
    /\ \A m \in BadgeMonths : Cardinality(RewardRows("attendance_champion", m)) = 1
    /\ \E i \in 1..Len(rewards) : /\ rewards[i].badge_type = "attendance_champion"
                                  /\ rewards[i].month_earned # last.q[2]
                                  /\ \A j \in 1..Len(rewards) :
                                        (/\ rewards[j].badge_type = "attendance_champion"
                                         /\ rewards[j].month_earned = last.q[2]) => i < j

(***************************************************************************)
(* SpecSuper: the two SUPER-badge checks called on one open SessionLocal   *)
(* session, which is committed or rolled back at any time.                 *)
(***************************************************************************)
\* total_points of the student: below the first milestone, and at the first four
SuperPoints == { 0 } \cup { SuperRewards[i][1] : i \in 1..4 }

InitSuper ==
    /\ today = 0
    /\ \E p \in SuperPoints : user = [NewUser EXCEPT !.total_points = p]
    /\ profile_course = None
    /\ practice_sessions = <<>>
    /\ points_logs = <<>>
    /\ rewards = <<>>
    /\ paper_attempts = <<>>
    /\ last = Op("init", 0, user, FALSE)
    /\ in_flight = NoRequests
    /\ calc = NoCalc

\* gamification.check_and_award_super_rewards(db, user); q is the list returned
CheckAndAwardSuperRewards ==
    /\ Len(rewards) < MaxRewards
    /\ LET r == check_and_award_super_rewards(user, rewards)
       IN  /\ rewards' = r.rewards
           /\ last' = Op("gamification.check_and_award_super_rewards", r.awarded, user, FALSE)
    /\ UNCHANGED <<today, user, profile_course, practice_sessions, points_logs,
                   paper_attempts, calc, in_flight>>

\* reward_system.check_and_award_super_rewards(db, user); q is the list returned
SuperJourneyRewards ==
    /\ Len(rewards) < MaxRewards
    /\ LET r == super_journey_rewards(user, rewards)
       IN  /\ rewards' = r.rewards
           /\ last' = Op("reward_system.check_and_award_super_rewards", r.awarded, user, FALSE)
    /\ UNCHANGED <<today, user, profile_course, practice_sessions, points_logs,
                   paper_attempts, calc, in_flight>>

\* db.commit()
Commit ==
    /\ rewards' = commit_rewards(rewards)
    /\ last' = Op("commit", 0, user, FALSE)
    /\ UNCHANGED <<today, user, profile_course, practice_sessions, points_logs,
                   paper_attempts, calc, in_flight>>

\* db.rollback(), or db.close() without a commit
Rollback ==
    /\ rewards' = rollback_rewards(rewards)
    /\ last' = Op("rollback", 0, user, FALSE)
    /\ UNCHANGED <<today, user, profile_course, practice_sessions, points_logs,
                   paper_attempts, calc, in_flight>>

NextSuper ==
    \/ CheckAndAwardSuperRewards
    \/ SuperJourneyRewards
    \/ Commit
    \/ Rollback

SpecSuper == InitSuper /\ [][NextSuper]_vars

(***************************************************************************)
(* SpecChecks: the badge checks that no handler calls, called on one open  *)
(* SessionLocal session, which is committed or rolled back at any time.    *)
(***************************************************************************)
MaxPending == 2   \* rewards rows up to which the checks are called

\* (current_month_accuracy, previous_month_accuracy) given to the improvement check
ImprovementInputs == { <<90, Some(60)>>, <<70, Some(60)>>, <<90, Some(0)>>, <<90, None>> }

\* current_streak of the student
CheckStreaks == { 6, 7, 30 }

InitChecks ==
    /\ today = 0
    /\ \E streak \in CheckStreaks :
          user = [NewUser EXCEPT !.current_streak = streak, !.longest_streak = streak]
    /\ profile_course = None
    /\ practice_sessions = <<>>
    /\ points_logs = <<>>
    /\ rewards = <<>>
    /\ paper_attempts = <<>>
    /\ last = Op("init", 0, user, FALSE)
    /\ in_flight = NoRequests
    /\ calc = NoCalc

\* reward_system.check_and_award_accuracy_badges(db, user, accuracy,
\* total_questions, month_str): the rows are added, not committed
CheckAndAwardAccuracyBadges ==
    /\ Len(rewards) < MaxPending
    /\ \E in \in AccuracyInputs, month_str \in BadgeMonths :
          LET r == check_and_award_accuracy_badges(rewards, in[1], in[2], month_str)
          IN  /\ rewards' = r.rewards
              /\ last' = Op("check_and_award_accuracy_badges", <<in[1], in[2], month_str>>,
                            user, FALSE)
    /\ UNCHANGED <<today, user, profile_course, practice_sessions, points_logs,
                   paper_attempts, calc, in_flight>>

\* reward_system.check_and_award_improvement_badge(db, user, current, previous,
\* month_str)
CheckAndAwardImprovementBadge ==
    /\ Len(rewards) < MaxPending
    /\ \E in \in ImprovementInputs, month_str \in BadgeMonths :
          LET r == check_and_award_improvement_badge(rewards, in[1], in[2], month_str)
          IN  /\ rewards' = r.rewards
              /\ last' = Op("check_and_award_improvement_badge", <<in[1], in[2], month_str>>,
                            user, FALSE)
    /\ UNCHANGED <<today, user, profile_course, practice_sessions, points_logs,
                   paper_attempts, calc, in_flight>>

\* gamification.check_and_award_badges(db, user, session)
CheckAndAwardBadges ==
    /\ Len(rewards) < MaxPending
    /\ LET r == check_and_award_badges(user, rewards)
       IN  /\ rewards' = r.rewards
           /\ last' = Op("check_and_award_badges", r.awarded, user, FALSE)
    /\ UNCHANGED <<today, user, profile_course, practice_sessions, points_logs,
                   paper_attempts, calc, in_flight>>

NextChecks ==
    \/ CheckAndAwardAccuracyBadges
    \/ CheckAndAwardImprovementBadge
    \/ CheckAndAwardBadges
    \/ Commit
    \/ Rollback

SpecChecks == InitChecks /\ [][NextChecks]_vars

SuperChecks ==
    { "gamification.check_and_award_super_rewards",
      "reward_system.check_and_award_super_rewards" }

\* C20: for a student at or above a milestone, a SUPER-badge check called
\* right after the same check on the same database session, with nothing
\* done in between, returns an empty list and adds no Reward row.
C20_SuperBadgeIdempotence ==
    [][ (/\ last.op \in SuperChecks
         /\ last'.op = last.op
         /\ user.total_points >= SuperRewards[1][1])
            => (last'.q = <<>> /\ rewards' = rewards) ]_vars

(***************************************************************************)
(* SpecLadder: the deferred phases run for a student who holds T points.   *)
(***************************************************************************)
\* the milestones of the SUPER journey
LadderMilestones == { SuperJourney[i][1] : i \in 1..Len(SuperJourney) }

\* T: no points, every milestone, and a value just below the first and above the last
LadderPoints == {0, SuperJourney[1][1] - 1, SuperJourney[Len(SuperJourney)][1] + 1000}
                    \cup LadderMilestones

InitLadder ==
    /\ today = 0
    /\ \E p \in LadderPoints :
          user = [NewUser EXCEPT !.total_points = p,
                                 !.total_questions_attempted = InitialQuestions]
    /\ profile_course = None
    /\ practice_sessions = BadgeSessions
    /\ points_logs = <<>>
    /\ rewards = <<>>
    /\ paper_attempts = <<>>
    /\ last = Op("init", 0, user, FALSE)
    /\ in_flight = NoRequests
    /\ calc = NoCalc

\* the background task of a committed practice session
LadderPracticeSessionAsync ==
    /\ user.total_questions_attempted < MaxQuestions
    /\ \E session_id \in 1..Len(practice_sessions) :
          LET attempted_questions == practice_sessions[session_id].correct_answers
                                         + practice_sessions[session_id].wrong_answers
              r == process_practice_session_async(user, practice_sessions, rewards,
                                                  profile_course, attempted_questions, today)
          IN  /\ user' = r.user
              /\ rewards' = r.rewards
              /\ last' = Op("process_practice_session_async", attempted_questions, user, FALSE)
    /\ UNCHANGED <<today, profile_course, practice_sessions, points_logs,
                   paper_attempts, calc, in_flight>>

\* the background task of a paper attempt
LadderPaperAttemptAsync ==
    /\ user.total_questions_attempted < MaxQuestions
    /\ \E attempted_questions \in BadgeAttempts :
          LET r == process_paper_attempt_async(user, practice_sessions, rewards,
                                               profile_course, attempted_questions, today)
          IN  /\ user' = r.user
              /\ rewards' = r.rewards
              /\ last' = Op("process_paper_attempt_async", attempted_questions, user, FALSE)
    /\ UNCHANGED <<today, profile_course, practice_sessions, points_logs,
                   paper_attempts, calc, in_flight>>

NextLadder ==
    \/ LadderPracticeSessionAsync
    \/ LadderPaperAttemptAsync

SpecLadder == InitLadder /\ [][NextLadder]_vars

DeferredOps == { "process_practice_session_async", "process_paper_attempt_async" }

\* the badge types of the SUPER journey the student holds
SuperBadgesHeld ==
    { rewards[i].badge_type : i \in { j \in 1..Len(rewards) : ~rewards[j].is_lifetime } }

\* C21: after the deferred phase of an attempt has run for a student with
\* total_points = T, the student holds one distinct badge for every milestone
\* <= T of the ladder (chocolates 1500..19500, letters 3000..15000, mystery
\* gift 18000, party 21000) and none for a milestone > T.
C21_SuperLadderCompleteness ==
    last.op \in DeferredOps =>
        Cardinality(SuperBadgesHeld)
            = Cardinality({ m \in LadderMilestones : m <= user.total_points })

(***************************************************************************)
(* Further claims about the requests (Spec).                               *)
(***************************************************************************)

\* C22: after a completed practice session or paper attempt has been
\* submitted and processed, user.total_questions_attempted has grown by the
\* attempted (correct + wrong) count of that event, counted exactly once.
C22_LifetimeQuestionCounter ==
    /\ last.op = "save_practice_session" =>
          user.total_questions_attempted
              = last.pre.total_questions_attempted + last.q[1] + last.q[2]
    /\ ( /\ last.op = "submit_paper_attempt"
         /\ last.q[1] \in 1..Len(last.pre_db.paper_attempts)
         /\ last.pre_db.paper_attempts[last.q[1]].completed_at = None ) =>
          user.total_questions_attempted
              = last.pre.total_questions_attempted + last.q[2] + last.q[3]

\* C29: the first login of a calendar day increases total_points by exactly
\* 10, writes one "daily_login" PointsLog entry of 10 points and records the
\* bonus date; a further login on the same day credits nothing; the login
\* succeeds in either case.
C29_DailyLoginBonus ==
    last.op = "login" =>
        /\ last.status = 200
        /\ IF \/ last.pre.last_daily_login_bonus_date = None
              \/ last.pre.last_daily_login_bonus_date[1] < today
           THEN /\ user.total_points = last.pre.total_points + DailyLoginBonus
                /\ Len(points_logs) = Len(last.pre_db.points_logs) + 1
                /\ points_logs[Len(points_logs)]
                       = PointsLog(DailyLoginBonus, "daily_login", None)
                /\ user.last_daily_login_bonus_date = Some(today)
           ELSE /\ user = last.pre
                /\ points_logs = last.pre_db.points_logs

(***************************************************************************)
(* SpecFailure: the deferred phases run for committed events, with any one *)
(* of their statements raising.                                            *)
(***************************************************************************)
MaxFailureQuestions == 20   \* total_questions_attempted up to which paper tasks are run

Raising == { "none" } \cup StepsBeforeCommit \cup StepsAfterCommit

InitFailure ==
    /\ today = 0
    /\ user = NewUser
    /\ points_logs = <<>>
    /\ profile_course \in { Some("Abacus"), Some("Vedic Maths") }
    /\ practice_sessions = <<>>
    /\ rewards = <<>>
    /\ paper_attempts = <<>>
    /\ last = Op("init", 0, user, FALSE)
    /\ in_flight = NoRequests
    /\ calc = NoCalc

\* the background task of the session committed last
ProcessPracticeSessionAsyncRaising ==
    /\ last.op = "session_completed"
    /\ \E raising \in Raising :
          LET session == practice_sessions[Len(practice_sessions)]
              attempted_questions == session.correct_answers + session.wrong_answers
              r == process_practice_session_async_raising(
                       user, practice_sessions, rewards, profile_course,
                       attempted_questions, today, raising)
          IN  /\ user' = r.user
              /\ rewards' = r.rewards
              /\ last' = [ Op("process_practice_session_async",
                              <<attempted_questions, raising>>, user, r.raised)
                           EXCEPT !.pre_db = Db ]
    /\ UNCHANGED <<today, profile_course, practice_sessions, points_logs,
                   paper_attempts, calc, in_flight>>

\* the background task of a paper attempt
ProcessPaperAttemptAsyncRaising ==
    /\ user.total_questions_attempted < MaxFailureQuestions
    /\ \E raising \in Raising, attempted_questions \in BadgeAttempts :
          LET r == process_paper_attempt_async_raising(
                       user, practice_sessions, rewards, profile_course,
                       attempted_questions, today, raising)
          IN  /\ user' = r.user
              /\ rewards' = r.rewards
              /\ last' = [ Op("process_paper_attempt_async",
                              <<attempted_questions, raising>>, user, r.raised)
                           EXCEPT !.pre_db = Db ]
    /\ UNCHANGED <<today, profile_course, practice_sessions, points_logs,
                   paper_attempts, calc, in_flight>>

NextFailure ==
    \/ SessionCompleted
    \/ ProcessPracticeSessionAsyncRaising
    \/ ProcessPaperAttemptAsyncRaising

SpecFailure == InitFailure /\ [][NextFailure]_vars

\* the course whose students have their streak updated by the last deferred phase
StreakCourse ==
    IF last.op = "process_practice_session_async" THEN "Abacus" ELSE "Vedic Maths"

\* a statement of the last deferred phase raised
StepRaised ==
    /\ last.op \in DeferredOps
    /\ step_executed(last.q[2], profile_course, StreakCourse)

\* C23: when a statement of a deferred phase raises, total_points and the
\* PointsLog entries committed before it are unchanged and no exception
\* leaves the deferred task.
C23_DeferredFailureKeepsPoints ==
    StepRaised =>
        /\ user.total_points = last.pre.total_points
        /\ points_logs = last.pre_db.points_logs
        /\ ~last.raised

\* a badge evaluation raised in the task of an account whose earlier task was
\* committed: the assignments of the failed task are rolled back, the points
\* and the ledger are as before
C23_Witness ==
    /\ StepRaised
    /\ last.q[2] = "check_and_award_super_rewards"
    /\ last.pre.total_questions_attempted > 0
    /\ user = last.pre
    /\ points_logs = last.pre_db.points_logs
    /\ ~last.raised

\* C24: failures of a deferred phase are isolated per statement: when a badge
\* evaluation raises, the streak update of the same event is kept (the event's
\* day is the last practice date), and when a leaderboard refresh raises, the
\* question count and the streak update of the event stay committed.
C24_SubStepIsolation ==
    (StepRaised /\ profile_course = Some(StreakCourse)) =>
        /\ last.q[2] \in { "check_and_award_lifetime_badges",
                           "check_and_award_super_rewards" } =>
               user.last_practice_date = Some(today)
        /\ last.q[2] \in StepsAfterCommit =>
               /\ user.last_practice_date = Some(today)
               /\ user.total_questions_attempted
                      = last.pre.total_questions_attempted + last.q[1]

(***************************************************************************)
(* SpecSweep: paper attempts started and swept at instants around the      *)
(* timeout.                                                                *)
(***************************************************************************)
MaxLate == 2   \* seconds past the timeout up to which the clock runs

\* the instants at which requests arrive: the first seconds of day 0 and the
\* seconds from one timeout later on
SweepInstants ==
    0..1 \cup { INCOMPLETE_ATTEMPT_TIMEOUT_SECONDS + late : late \in 0..MaxLate }

SweepOps == { "start_paper_attempt", "cleanup_stale_incomplete_attempts", "get_paper_attempt" }

\* get_ist_now() at the last request
SweepClock == IF last.op \in SweepOps THEN last.q[1] ELSE 0

InitSweep ==
    /\ today = 0
    /\ user = NewUser
    /\ points_logs = <<>>
    /\ profile_course = None
    /\ practice_sessions = <<>>
    /\ rewards = <<>>
    /\ paper_attempts = <<>>
    /\ last = Op("init", 0, user, FALSE)
    /\ in_flight = NoRequests
    /\ calc = NoCalc

\* POST /papers/attempt at the instant ist_now
SweepStartPaperAttempt ==
    /\ \E ist_now \in SweepInstants, total \in PaperTotals :
          /\ ist_now >= SweepClock
          /\ LET r == start_paper_attempt(paper_attempts, total, ist_now)
             IN  /\ paper_attempts' = r.paper_attempts
                 /\ last' = Request("start_paper_attempt", <<ist_now, total>>, user,
                                    r.status, Db)
    /\ UNCHANGED <<today, user, profile_course, practice_sessions, points_logs, rewards, calc,
                   in_flight>>

\* the cleanup pass of the startup event and of GET /papers/attempts
CleanupStaleIncompleteAttempts ==
    /\ \E ist_now \in SweepInstants :
          /\ ist_now >= SweepClock
          /\ paper_attempts' = cleanup_stale_incomplete_attempts(paper_attempts, ist_now)
          /\ last' = Request("cleanup_stale_incomplete_attempts", <<ist_now>>, user, 200, Db)
    /\ UNCHANGED <<today, user, profile_course, practice_sessions, points_logs, rewards, calc,
                   in_flight>>

\* GET /papers/attempt/{attempt_id} at the instant ist_now
SweepGetPaperAttempt ==
    /\ \E ist_now \in SweepInstants, attempt_id \in 1..(MaxAttemptsPerPaper + 1) :
          /\ ist_now >= SweepClock
          /\ LET r == get_paper_attempt(paper_attempts, attempt_id, ist_now)
             IN  /\ paper_attempts' = r.paper_attempts
                 /\ last' = Request("get_paper_attempt", <<ist_now, attempt_id>>, user,
                                    r.status, Db)
    /\ UNCHANGED <<today, user, profile_course, practice_sessions, points_logs, rewards, calc,
                   in_flight>>

NextSweep ==
    \/ SweepStartPaperAttempt
    \/ CleanupStaleIncompleteAttempts
    \/ SweepGetPaperAttempt

SpecSweep == InitSweep /\ [][NextSweep]_vars

\* the attempt was incomplete and started more than one hour before ist_now
StaleAt(attempt, ist_now) ==
    attempt.completed_at = None /\ ist_now - attempt.started_at > 60 * 60

\* the attempt is force-completed with a zero score
ForceCompleted(attempt) ==
    /\ attempt.completed_at # None
    /\ attempt.score = 0
    /\ attempt.correct_answers = 0
    /\ attempt.wrong_answers = 0
    /\ attempt.accuracy = Percentage(0, attempt.total_questions)
    /\ attempt.points_earned = 0

\* C27: the cleanup pass force-completes, with score, counts, accuracy and
\* points_earned 0, exactly the attempts that were incomplete and started more
\* than one hour before; every other attempt is left unchanged, no total_points
\* changes and no ledger entry is written.  The same holds of the one attempt
\* that GET /papers/attempt/{attempt_id} reads.
C27_StaleAttemptSweep ==
    LET before == last.pre_db.paper_attempts
        ist_now == last.q[1]
    IN  /\ last.op = "cleanup_stale_incomplete_attempts" =>
              /\ Len(paper_attempts) = Len(before)
              /\ \A i \in 1..Len(before) :
                    IF StaleAt(before[i], ist_now)
                    THEN ForceCompleted(paper_attempts[i])
                    ELSE paper_attempts[i] = before[i]
              /\ user = last.pre
              /\ points_logs = last.pre_db.points_logs
        /\ (last.op = "get_paper_attempt" /\ last.status = 200) =>
              /\ Len(paper_attempts) = Len(before)
              /\ \A i \in 1..Len(before) :
                    IF i = last.q[2] /\ StaleAt(before[i], ist_now)
                    THEN ForceCompleted(paper_attempts[i])
                    ELSE paper_attempts[i] = before[i]
              /\ user = last.pre
              /\ points_logs = last.pre_db.points_logs

\* a cleanup pass that swept one attempt and left alone one that was started
\* exactly one hour before
C27_Witness ==
    /\ last.op = "cleanup_stale_incomplete_attempts"
    /\ \E i, j \in 1..Len(paper_attempts) :
          /\ StaleAt(last.pre_db.paper_attempts[i], last.q[1])
          /\ paper_attempts[i].completed_at = Some(last.q[1])
          /\ last.q[1] - paper_attempts[j].started_at = 60 * 60
          /\ paper_attempts[j].completed_at = None

(***************************************************************************)
(* SpecBalance: every statement of the program that assigns total_points,  *)
(* applied to the user row and kept, whatever becomes of the ledger write  *)
(* that follows it.  The balances of the requests are among its balances.  *)
(***************************************************************************)
\* correct_answers and wrong_answers of a request body: any integers
BalanceCounts == MinCount..1

\* the request bodies of POST /users/practice-session
BalanceSessions == { <<c, w, 10>> : c \in BalanceCounts, w \in BalanceCounts }

\* The database the server is started on, the day after a qualifying session
\* and a started paper: a student on a streak of 6 that today's practice takes
\* to the milestone of 7, with or without today's login bonus.
InitBalance ==
    /\ today = 1
    /\ \E p \in InitialPoints, d \in { None, Some(today) } :
          user = [NewUser EXCEPT !.total_points = p,
                                 !.current_streak = 6,
                                 !.longest_streak = 6,
                                 !.last_practice_date = Some(today - 1),
                                 !.last_daily_login_bonus_date = d]
    /\ profile_course = None
    /\ practice_sessions = << qualifying_session(today - 1) >>
    /\ points_logs = <<>>
    /\ rewards = <<>>
    /\ \E total \in PaperTotals : paper_attempts = <<PaperAttempt(total, Instant(0, 0))>>
    /\ last = Op("init", 0, user, FALSE)
    /\ in_flight = NoRequests
    /\ calc = NoCalc

\* a worker whose handler has loaded the user row and made its assignments on
\* the user object of its session, and is about to call log_points
Assigned(name, q, loaded, local) ==
    [Idle EXCEPT !.pc = "assigned", !.op = name, !.q = q, !.loaded = loaded,
                 !.local = local]

\* save_practice_session up to current_user.total_points += points_earned
CreditPracticeSession(w) ==
    /\ in_flight[w].pc = "idle"
    /\ \E session_data \in BalanceSessions :
          in_flight' = [in_flight EXCEPT ![w] =
                           Assigned("save_practice_session", session_data, user,
                                    save_practice_session_assigned(user, session_data))]
    /\ UNCHANGED <<today, user, profile_course, practice_sessions, points_logs, rewards,
                   paper_attempts, last, calc>>

\* PUT /papers/attempt/{attempt_id} arrives: get_current_user loads the user row
LoadPaperAttempt(w) ==
    /\ in_flight[w].pc = "idle"
    /\ \E attempt_id \in 1..MaxAttemptsPerPaper, counts \in AnswerCounts :
          in_flight' = [in_flight EXCEPT ![w] =
                           [Idle EXCEPT !.pc = "loaded", !.op = "submit_paper_attempt",
                                        !.q = <<attempt_id, counts>>, !.loaded = user,
                                        !.local = user]]
    /\ UNCHANGED <<today, user, profile_course, practice_sessions, points_logs, rewards,
                   paper_attempts, last, calc>>

\* the body of submit_paper_attempt, from its query of the attempt up to
\* current_user.total_points += points_earned
CreditPaperAttempt(w) ==
    /\ in_flight[w].pc = "loaded"
    /\ in_flight[w].op = "submit_paper_attempt"
    /\ LET flight == in_flight[w]
       IN  in_flight' = [in_flight EXCEPT ![w] =
                            [flight EXCEPT !.pc = "assigned", !.attempts = paper_attempts,
                                           !.local = submit_paper_attempt_assigned(
                                                         flight.loaded, paper_attempts,
                                                         flight.q[1], flight.q[2])]]
    /\ UNCHANGED <<today, user, profile_course, practice_sessions, points_logs, rewards,
                   paper_attempts, last, calc>>

\* login up to user.last_daily_login_bonus_date = ...
CreditLoginBonus(w) ==
    /\ in_flight[w].pc = "idle"
    /\ in_flight' = [in_flight EXCEPT ![w] =
                        Assigned("login", 0, user, login_assigned(user, today))]
    /\ UNCHANGED <<today, user, profile_course, practice_sessions, points_logs, rewards,
                   paper_attempts, last, calc>>

\* the caller of update_streak_with_grace_skip loads the user row in its
\* database session
LoadStreakBonus(w) ==
    /\ in_flight[w].pc = "idle"
    /\ \E q \in QuestionCounts :
          in_flight' = [in_flight EXCEPT ![w] =
                           [Idle EXCEPT !.pc = "loaded",
                                        !.op = "update_streak_with_grace_skip",
                                        !.q = q, !.loaded = user, !.local = user]]
    /\ UNCHANGED <<today, user, profile_course, practice_sessions, points_logs, rewards,
                   paper_attempts, last, calc>>

\* update_streak_with_grace_skip called on the user object loaded earlier, for
\* today's questions: it queries yesterday's sessions as the table holds them
\* now, and user.total_points += bonus when a milestone is reached
CreditStreakBonus(w) ==
    /\ in_flight[w].pc = "loaded"
    /\ in_flight[w].op = "update_streak_with_grace_skip"
    /\ LET flight == in_flight[w]
       IN  in_flight' = [in_flight EXCEPT ![w] =
                            [flight EXCEPT !.pc = "assigned",
                                           !.local = update_streak_with_grace_skip(
                                                         flight.loaded, practice_sessions,
                                                         points_logs, rewards, today,
                                                         flight.q).user]]
    /\ UNCHANGED <<today, user, profile_course, practice_sessions, points_logs, rewards,
                   paper_attempts, last, calc>>

\* redeem_grace_skip up to the return of use_grace_skip
DebitGraceSkip(w) ==
    /\ in_flight[w].pc = "idle"
    /\ in_flight' = [in_flight EXCEPT ![w] =
                        Assigned("redeem_grace_skip", 0, user,
                                 redeem_grace_skip_assigned(user, points_logs, today))]
    /\ UNCHANGED <<today, user, profile_course, practice_sessions, points_logs, rewards,
                   paper_attempts, last, calc>>

\* update_student_points up to student.total_points = max(0, request.points)
SetStudentPoints(w) ==
    /\ in_flight[w].pc = "idle"
    /\ \E points \in AdminPoints :
          in_flight' = [in_flight EXCEPT ![w] =
                           Assigned("update_student_points", points, user,
                                    update_student_points_assigned(user, points))]
    /\ UNCHANGED <<today, user, profile_course, practice_sessions, points_logs, rewards,
                   paper_attempts, last, calc>>

\* what the handler of a worker ends with: the user object, the tables and the
\* status code at its commit or rollback.  update_streak_with_grace_skip has no
\* caller that commits: its session is closed with nothing written.
request_outcome(flight, sessions, attempts, logs, day) ==
    LET kept == [ user |-> flight.loaded, practice_sessions |-> sessions,
                  paper_attempts |-> attempts, points_logs |-> logs, status |-> 0 ]
    IN  CASE flight.op = "save_practice_session" ->
               LET r == save_practice_session(flight.loaded, sessions, logs, flight.q, day)
               IN  [kept EXCEPT !.user = r.user, !.practice_sessions = r.practice_sessions,
                                !.points_logs = r.points_logs, !.status = r.status]
          [] flight.op = "submit_paper_attempt" ->
               \* the attempt is the row the body has queried; its UPDATE is
               \* written at the commit if the row is still there
               LET attempt_id == flight.q[1]
                   r == submit_paper_attempt(flight.loaded, flight.attempts, logs,
                                             attempt_id, flight.q[2], Instant(day, 0))
               IN  [kept EXCEPT !.user = r.user,
                                !.paper_attempts =
                                    IF r.status = 200 /\ attempt_id \in 1..Len(attempts)
                                    THEN [attempts EXCEPT
                                             ![attempt_id] = r.paper_attempts[attempt_id]]
                                    ELSE attempts,
                                !.points_logs = r.points_logs, !.status = r.status]
          [] flight.op = "login" ->
               LET r == login(flight.loaded, logs, day)
               IN  [kept EXCEPT !.user = r.user, !.points_logs = r.points_logs,
                                !.status = r.status]
          [] flight.op = "redeem_grace_skip" ->
               LET r == redeem_grace_skip(flight.loaded, logs, day)
               IN  [kept EXCEPT !.user = r.user, !.points_logs = r.points_logs,
                                !.status = r.status]
          [] flight.op = "update_student_points" ->
               LET r == update_student_points(flight.loaded, logs, flight.q)
               IN  [kept EXCEPT !.user = r.user, !.points_logs = r.points_logs,
                                !.status = r.status]
          [] OTHER -> kept

\* the handler of a worker runs to its commit or rollback and answers
EndRequest(w) ==
    /\ in_flight[w].pc = "assigned"
    /\ LET flight == in_flight[w]
           r == request_outcome(flight, practice_sessions, paper_attempts, points_logs,
                                today)
       IN  /\ user' = flush_user(user, flight.loaded, r.user)
           /\ practice_sessions' = r.practice_sessions
           /\ paper_attempts' = r.paper_attempts
           /\ points_logs' = r.points_logs
           /\ last' = Request(flight.op, flight.q, flight.loaded, r.status, Db)
    /\ in_flight' = [in_flight EXCEPT ![w] = Idle]
    /\ UNCHANGED <<today, profile_course, rewards, calc>>

\* reset_all_progress_data
ResetBalance ==
    /\ user' = reset_user(user)
    /\ practice_sessions' = <<>>
    /\ paper_attempts' = <<>>
    /\ rewards' = <<>>
    /\ last' = Request("reset_all_progress_data", 0, user, 200, Db)
    /\ UNCHANGED <<today, profile_course, points_logs, calc, in_flight>>

NextBalance ==
    \/ \E w \in Workers : CreditPracticeSession(w)
    \/ \E w \in Workers : LoadPaperAttempt(w)
    \/ \E w \in Workers : CreditPaperAttempt(w)
    \/ \E w \in Workers : CreditLoginBonus(w)
    \/ \E w \in Workers : LoadStreakBonus(w)
    \/ \E w \in Workers : CreditStreakBonus(w)
    \/ \E w \in Workers : DebitGraceSkip(w)
    \/ \E w \in Workers : SetStudentPoints(w)
    \/ \E w \in Workers : EndRequest(w)
    \/ ResetBalance

SpecBalance == InitBalance /\ [][NextBalance]_vars

\* C30: in every state reached by practice and paper submissions with any
\* integer counts, login bonuses, streak bonuses, grace-skip redemptions, admin
\* adjustments and resets, total_points >= 0: in the user row, and on the user
\* object of every handler that has made its assignment.
C30_NonNegativeBalance ==
    /\ user.total_points >= 0
    /\ \A w \in Workers : in_flight[w].local.total_points >= 0

\* a submission with negative counts on an empty balance has been answered
\* while the handler of a negative admin adjustment holds its student object
C30_Witness ==
    /\ last.op = "save_practice_session"
    /\ last.q[1] < 0
    /\ last.q[2] < 0
    /\ last.pre.total_points = 0
    /\ \E w \in Workers : /\ in_flight[w].pc = "assigned"
                          /\ in_flight[w].op = "update_student_points"
                          /\ in_flight[w].q < 0

(***************************************************************************)
(* SpecRace: two workers serve requests of the same student at the same    *)
(* time, each on a database session of its own.  A request first loads the *)
(* rows it works on (get_current_user, the query of the attempt) and later *)
(* runs to its commit or rollback.  The stale attempts are swept in        *)
(* between.  log_points raises in every submission, so no request reaches  *)
(* background_tasks.add_task; the background tasks are run in SpecTasks.   *)
(***************************************************************************)

\* The database the workers start on, the day after the student started a
\* paper and left it: no points, an empty ledger, the incomplete attempt.
InitRace ==
    /\ today = 1
    /\ user = NewUser
    /\ points_logs = <<>>
    /\ profile_course = Some("Abacus")
    /\ practice_sessions = <<>>
    /\ rewards = <<>>
    /\ \E total \in PaperTotals : paper_attempts = <<PaperAttempt(total, Instant(0, 0))>>
    /\ last = Op("init", 0, user, FALSE)
    /\ in_flight = NoRequests
    /\ calc = NoCalc

\* POST /users/practice-session arrives: get_current_user loads the user row
LoadSavePracticeSession(w) ==
    /\ in_flight[w].pc = "idle"
    /\ \E session_data \in SessionInputs :
          in_flight' = [in_flight EXCEPT ![w] =
                           [Idle EXCEPT !.pc = "loaded", !.op = "save_practice_session",
                                        !.q = session_data, !.loaded = user]]
    /\ UNCHANGED <<today, user, profile_course, practice_sessions, points_logs, rewards,
                   paper_attempts, last, calc>>

\* PUT /papers/attempt/{attempt_id} arrives: get_current_user loads the user row
LoadSubmitPaperAttempt(w) ==
    /\ in_flight[w].pc = "idle"
    /\ \E attempt_id \in 1..Len(paper_attempts), counts \in AnswerCounts :
          in_flight' = [in_flight EXCEPT ![w] =
                           [Idle EXCEPT !.pc = "loaded", !.op = "submit_paper_attempt",
                                        !.q = <<attempt_id, counts[1], counts[2]>>,
                                        !.loaded = user]]
    /\ UNCHANGED <<today, user, profile_course, practice_sessions, points_logs, rewards,
                   paper_attempts, last, calc>>

\* the body of submit_paper_attempt starts: it queries the attempt
QueryPaperAttempt(w) ==
    /\ in_flight[w].pc = "loaded"
    /\ in_flight[w].op = "submit_paper_attempt"
    /\ in_flight' = [in_flight EXCEPT ![w] =
                        [@ EXCEPT !.pc = "queried", !.attempts = paper_attempts]]
    /\ UNCHANGED <<today, user, profile_course, practice_sessions, points_logs, rewards,
                   paper_attempts, last, calc>>

\* what the worker goes on with after its request: the background task the
\* request added, with the attempted_questions the request passes it, or
\* nothing
after_request(flight, scheduled) ==
    IF ~scheduled THEN [flight EXCEPT !.pc = "done"]
    ELSE IF flight.op = "submit_paper_attempt"
    THEN [flight EXCEPT !.pc = "scheduled", !.op = "process_paper_attempt_async",
                        !.q = <<flight.q[2] + flight.q[3]>>]
    ELSE [flight EXCEPT !.pc = "scheduled", !.op = "process_practice_session_async",
                        !.q = <<flight.q[1] + flight.q[2]>>]

\* save_practice_session runs to its commit or rollback
FinishSavePracticeSession(w) ==
    /\ in_flight[w].pc = "loaded"
    /\ in_flight[w].op = "save_practice_session"
    /\ LET flight == in_flight[w]
           r == save_practice_session(flight.loaded, practice_sessions, points_logs,
                                      flight.q, today)
       IN  /\ user' = IF r.status = 200 THEN flush_user(user, flight.loaded, r.user)
                       ELSE user
           /\ practice_sessions' = r.practice_sessions
           /\ points_logs' = r.points_logs
           /\ last' = Request("save_practice_session", flight.q, flight.loaded, r.status, Db)
           /\ in_flight' = [in_flight EXCEPT ![w] = after_request(flight, r.scheduled)]
    /\ UNCHANGED <<today, profile_course, rewards, paper_attempts, calc>>

\* submit_paper_attempt runs to its commit or rollback
FinishSubmitPaperAttempt(w) ==
    /\ in_flight[w].pc = "queried"
    /\ in_flight[w].op = "submit_paper_attempt"
    /\ LET flight == in_flight[w]
           attempt_id == flight.q[1]
           r == submit_paper_attempt(flight.loaded, flight.attempts, points_logs,
                                     attempt_id, <<flight.q[2], flight.q[3]>>,
                                     Instant(today, 0))
       IN  /\ user' = IF r.status = 200 THEN flush_user(user, flight.loaded, r.user)
                       ELSE user
           /\ paper_attempts' = IF r.status = 200
                                 THEN [paper_attempts EXCEPT
                                          ![attempt_id] = r.paper_attempts[attempt_id]]
                                 ELSE paper_attempts
           /\ points_logs' = r.points_logs
           /\ last' = Request("submit_paper_attempt", flight.q, flight.loaded, r.status, Db)
           /\ in_flight' = [in_flight EXCEPT ![w] = after_request(flight, r.scheduled)]
    /\ UNCHANGED <<today, profile_course, practice_sessions, rewards, calc>>

\* the cleanup pass of GET /papers/attempts, or of another server starting
RaceCleanup ==
    /\ paper_attempts' = cleanup_stale_incomplete_attempts(paper_attempts, Instant(today, 0))
    /\ last' = Request("cleanup_stale_incomplete_attempts", <<Instant(today, 0)>>, user,
                       200, Db)
    /\ UNCHANGED <<today, user, profile_course, practice_sessions, points_logs, rewards,
                   calc, in_flight>>

NextRace ==
    \/ \E w \in Workers : LoadSavePracticeSession(w)
    \/ \E w \in Workers : LoadSubmitPaperAttempt(w)
    \/ \E w \in Workers : QueryPaperAttempt(w)
    \/ \E w \in Workers : FinishSavePracticeSession(w)
    \/ \E w \in Workers : FinishSubmitPaperAttempt(w)
    \/ RaceCleanup

SpecRace == InitRace /\ [][NextRace]_vars

\* both workers have served a practice submission of the same user row
BothSubmitted ==
    \A w \in Workers :
        /\ in_flight[w].pc = "done"
        /\ in_flight[w].op = "save_practice_session"
        /\ in_flight[w].loaded = in_flight[1].loaded

\* the ledger entries of practice sessions
MentalMathEntries ==
    { i \in 1..Len(points_logs) : points_logs[i].source_type = "mental_math" }

\* C25: two simultaneous submissions of the same user, each a read-modify-write
\* of the user row it loaded, end with the ledger holding both entries while
\* total_points reflects only one of the two point deltas, and
\* total_questions_attempted only one of the two question counts.
C25_LostUpdateRace ==
    BothSubmitted =>
        /\ Cardinality(MentalMathEntries) = 2
        /\ \E w \in Workers :
              LET flight == in_flight[w]
                  attempted_questions == flight.q[1] + flight.q[2]
              IN  /\ user.total_points
                         = flight.loaded.total_points
                           + calculate_points(flight.q[1], flight.q[3],
                                              Some(attempted_questions))
                  /\ user.total_questions_attempted
                         = flight.loaded.total_questions_attempted + attempted_questions

\* the "paper_attempt" ledger entries of an attempt
PaperEntries(logs, attempt_id) ==
    { i \in 1..Len(logs) : /\ logs[i].source_type = "paper_attempt"
                           /\ logs[i].source_id = Some(attempt_id) }

\* C28: in every interleaving of submissions and cleanup sweeps on an attempt,
\* a submission neither increases total_points nor writes a ledger entry once
\* the attempt is completed, swept as abandoned or already paid, and the
\* attempt never has more than one "paper_attempt" ledger entry.
C28_PaperPointsOnce ==
    [][ \A w \in Workers :
          ( /\ in_flight[w].pc = "queried"
            /\ in_flight[w].op = "submit_paper_attempt"
            /\ in_flight'[w].pc # "queried" ) =>
              LET attempt_id == in_flight[w].q[1]
              IN  /\ Cardinality(PaperEntries(points_logs', attempt_id)) <= 1
                  /\ ( \/ paper_attempts[attempt_id].completed_at # None
                       \/ PaperEntries(points_logs, attempt_id) # {} ) =>
                          /\ user'.total_points = user.total_points
                          /\ points_logs' = points_logs ]_vars

\* two duplicate submissions of the attempt were served, one that read the
\* attempt before the sweep and one that read it after
C28_Witness ==
    /\ \A w \in Workers : /\ in_flight[w].pc = "done"
                          /\ in_flight[w].op = "submit_paper_attempt"
                          /\ in_flight[w].q[1] = 1
    /\ \E w \in Workers : in_flight[w].attempts[1].completed_at = None
    /\ \E w \in Workers : in_flight[w].attempts[1].completed_at # None
    /\ paper_attempts[1].completed_at # None
    /\ Len(points_logs) = Len(last.pre_db.points_logs)

(***************************************************************************)
(* SpecTasks: two workers run the background tasks of the committed        *)
(* sessions and attempts of one student at the same time, each on a        *)
(* database session of its own.  A task issues its queries one after the   *)
(* other, and another task can commit between any two of them.             *)
(***************************************************************************)

\* The database the tasks run on: a student whose points are below or past
\* the first super reward and whose question count is at, or close to the
\* first lifetime badge from, zero; the committed sessions and a completed
\* attempt.
InitTasks ==
    /\ today = 1
    /\ \E p \in InitialPoints, n \in { 0, InitialQuestions } :
          user = [NewUser EXCEPT !.total_points = p, !.total_questions_attempted = n]
    /\ points_logs = <<>>
    /\ profile_course \in { Some("Abacus"), Some("Vedic Maths") }
    /\ practice_sessions = BadgeSessions
    /\ rewards = <<>>
    /\ \E total \in PaperTotals, counts \in AnswerCounts :
          paper_attempts = << [ PaperAttempt(total, Instant(0, 0))
                                EXCEPT !.correct_answers = counts[1],
                                       !.wrong_answers = counts[2],
                                       !.completed_at = Some(Instant(0, 60)) ] >>
    /\ last = Op("init", 0, user, FALSE)
    /\ in_flight = NoRequests
    /\ calc = NoCalc

\* the background task of a committed session is handed to the worker
AddPracticeSessionTask(w) ==
    /\ in_flight[w].pc = "idle"
    /\ \E session_id \in 1..Len(practice_sessions) :
          LET session == practice_sessions[session_id]
          IN  in_flight' = [in_flight EXCEPT ![w] =
                               [Idle EXCEPT !.pc = "scheduled",
                                            !.op = "process_practice_session_async",
                                            !.q = <<session.correct_answers
                                                    + session.wrong_answers>>]]
    /\ UNCHANGED <<today, user, profile_course, practice_sessions, points_logs, rewards,
                   paper_attempts, last, calc>>

\* the background task of a completed attempt is handed to the worker
AddPaperAttemptTask(w) ==
    /\ in_flight[w].pc = "idle"
    /\ \E attempt_id \in 1..Len(paper_attempts) :
          LET attempt == paper_attempts[attempt_id]
          IN  /\ attempt.completed_at # None
              /\ in_flight' = [in_flight EXCEPT ![w] =
                                  [Idle EXCEPT !.pc = "scheduled",
                                               !.op = "process_paper_attempt_async",
                                               !.q = <<attempt.correct_answers
                                                       + attempt.wrong_answers>>]]
    /\ UNCHANGED <<today, user, profile_course, practice_sessions, points_logs, rewards,
                   paper_attempts, last, calc>>

\* the course whose students' streaks a task updates
task_course(op) ==
    IF op = "process_paper_attempt_async" THEN Some("Vedic Maths") ELSE Some("Abacus")

\* the badge entries a task walks, in its order: the practice task calls
\* check_and_award_lifetime_badges and then check_and_award_super_rewards, the
\* paper task the other way round
task_checks(op) ==
    LET lifetime == [ i \in 1..Len(LifetimeBadges) |-> <<"lifetime", LifetimeBadges[i]>> ]
        super == [ i \in 1..Len(SuperRewards) |-> <<"super", SuperRewards[i]>> ]
    IN  IF op = "process_paper_attempt_async" THEN super \o lifetime
        ELSE lifetime \o super

\* the entries after the one walked last whose threshold the user object of
\* the task has reached: the ones whose existence query is issued
queries_left(flight) ==
    { i \in (flight.step + 1)..Len(task_checks(flight.op)) :
        LET check == task_checks(flight.op)[i]
        IN  IF check[1] = "lifetime"
            THEN flight.local.total_questions_attempted >= check[2][1]
            ELSE flight.local.total_points >= check[2][1] }

\* the task goes on to its next existence query, or to db.commit()
next_query(flight) ==
    [flight EXCEPT !.pc = IF queries_left(flight) = {} THEN "evaluated" ELSE "checking"]

\* db.query(User) of the task, and update_user_question_count on the object
QueryUserTask(w) ==
    /\ in_flight[w].pc = "scheduled"
    /\ LET flight == in_flight[w]
       IN  in_flight' = [in_flight EXCEPT ![w] =
                            [flight EXCEPT !.pc = "counted", !.loaded = user,
                                           !.local = update_user_question_count(
                                                         user, flight.q[1])]]
    /\ UNCHANGED <<today, user, profile_course, practice_sessions, points_logs, rewards,
                   paper_attempts, last, calc>>

\* db.query(StudentProfile) of the task, and update_streak for the students
\* of its course
UpdateStreakTask(w) ==
    /\ in_flight[w].pc = "counted"
    /\ LET flight == in_flight[w]
           u2 == IF profile_course = task_course(flight.op)
                 THEN update_streak(flight.local, practice_sessions, today, flight.q[1])
                 ELSE flight.local
       IN  in_flight' = [in_flight EXCEPT ![w] = next_query([flight EXCEPT !.local = u2])]
    /\ UNCHANGED <<today, user, profile_course, practice_sessions, points_logs, rewards,
                   paper_attempts, last, calc>>

\* one existence query of the badge functions, on the committed Reward rows,
\* and db.add(Reward(...)) when it finds none
CheckBadgeTask(w) ==
    /\ in_flight[w].pc = "checking"
    /\ LET flight == in_flight[w]
           i == CHOOSE i \in queries_left(flight) : \A j \in queries_left(flight) : i <= j
           check == task_checks(flight.op)[i]
           badge_type == check[2][2]
           existing == IF check[1] = "lifetime"
                       THEN existing_lifetime_badge(rewards, badge_type)
                       ELSE existing_badge(rewards, badge_type)
           pending == IF existing THEN flight.pending
                      ELSE Append(flight.pending,
                                  Reward(badge_type, None, check[1] = "lifetime"))
       IN  in_flight' = [in_flight EXCEPT ![w] =
                            next_query([flight EXCEPT !.step = i, !.pending = pending])]
    /\ UNCHANGED <<today, user, profile_course, practice_sessions, points_logs, rewards,
                   paper_attempts, last, calc>>

\* db.commit() of the background task
CommitTask(w) ==
    /\ in_flight[w].pc = "evaluated"
    /\ LET flight == in_flight[w]
       IN  /\ user' = flush_user(user, flight.loaded, flight.local)
           /\ rewards' = rewards \o commit_rewards(flight.pending)
           /\ last' = [ Op(flight.op, flight.q, flight.loaded, FALSE)
                        EXCEPT !.pre_db = Db ]
           /\ in_flight' = [in_flight EXCEPT ![w] = [flight EXCEPT !.pc = "done"]]
    /\ UNCHANGED <<today, profile_course, practice_sessions, points_logs, paper_attempts,
                   calc>>

NextTasks ==
    \/ \E w \in Workers : AddPracticeSessionTask(w)
    \/ \E w \in Workers : AddPaperAttemptTask(w)
    \/ \E w \in Workers : QueryUserTask(w)
    \/ \E w \in Workers : UpdateStreakTask(w)
    \/ \E w \in Workers : CheckBadgeTask(w)
    \/ \E w \in Workers : CommitTask(w)

SpecTasks == InitTasks /\ [][NextTasks]_vars

\* C26: when two deferred phases of the same user run concurrently and both
\* find the same badge condition satisfied, the existence check makes the
\* second insert a no-op: no interleaving ends with two Reward rows of the
\* same badge_type (and month_earned).
C26_ConcurrentBadgeInserts ==
    \A badge_type \in { rewards[i].badge_type : i \in 1..Len(rewards) } :
        \A month_earned \in { rewards[i].month_earned : i \in 1..Len(rewards) } :
            Cardinality(RewardRows(badge_type, month_earned)) <= 1

====
